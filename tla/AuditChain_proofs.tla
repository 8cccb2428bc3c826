--------------------------- MODULE AuditChain_proofs ---------------------------
(***************************************************************************)
(* The audit chain for any number of transactions and any skew of the      *)
(* clocks.  That there is a newest row has itself to be part of the        *)
(* invariant, and so has what an undisturbed writer knows: it is the only  *)
(* one under way, and its row will be the newest.                          *)
(***************************************************************************)
EXTENDS AuditChain, FiniteSetTheorems, TLAPS

IsNewest(r, S) == r \in S /\ \A s \in S \ {r} : Before(s, r)
IsOldest(r, S) == r \in S /\ \A s \in S \ {r} : Before(r, s)

HasEnds(S) == (\E r \in S : IsNewest(r, S)) /\ (\E r \in S : IsOldest(r, S))

\* A row's writer has ended, so ids are unique; any rows have a newest and an
\* oldest among them, and can be counted.
RowsOK ==
  /\ IsFiniteSet(rows)
  /\ \A r \in rows : writer[r.id].pc = "ended"
  /\ \A r, s \in rows : r.id = s.id => r = s
  /\ \A S \in SUBSET rows : S # {} => HasEnds(S)

Committed(hash) == hash = NoHash \/ \E s \in rows : s.id = hash

PrevOK ==
  /\ \A r \in rows : Committed(r.prev)
  /\ \A w \in Writers : Committed(writer[w].prev)

Chained == \A r \in rows : r.prev = Newest(Earlier(r, rows))

\* Nobody has disturbed anybody yet.
SerialOK ==
  ~disturbed =>
    /\ Chained
    /\ \A r \in rows : r.at < now
    /\ \A v, w \in Writers : Underway(v) /\ Underway(w) => v = w
    /\ \A w \in Writers :
         Underway(w) => /\ writer[w].pc = "linked" /\ writer[w].prev = Newest(rows)
                        /\ writer[w].at < now /\ \A r \in rows : r.at < writer[w].at

Inv == TypeOK /\ RowsOK /\ PrevOK /\ SerialOK

LEMMA InvGivesPrev == Inv => PrevIsCommitted
BY DEF Inv, PrevOK, Committed, PrevIsCommitted

LEMMA InitInv == Init => Inv
<1> SUFFICES ASSUME Init PROVE Inv
  OBVIOUS
<1>1. \A w \in Writers : writer[w].pc = "idle" /\ writer[w].prev = NoHash
  BY DEF Init
<1>2. TypeOK
  <2>1. disturbed \in BOOLEAN
    BY Zenon DEF Init
  <2> QED BY <2>1 DEF Init, TypeOK, NoHash
<1>3. RowsOK /\ PrevOK
  BY <1>1, FS_EmptySet DEF Init, RowsOK, PrevOK, Committed
<1>4. SerialOK
  BY <1>1 DEF Init, SerialOK, Chained, Underway
<1> QED BY <1>2, <1>3, <1>4 DEF Inv

----------------------------------------------------------------------------
(* The newest row *)

\* Two rows are ordered one way and not the other.
LEMMA Ordered ==
  ASSUME NEW r, NEW s, r.at \in Nat, s.at \in Nat, r.id \in Nat, s.id \in Nat, r.id # s.id
  PROVE  (Before(r, s) \/ Before(s, r)) /\ ~(Before(r, s) /\ Before(s, r))
BY DEF Before

\* The newest row is the one row everything else comes before.
LEMMA NewestIs ==
  ASSUME TypeOK, RowsOK, NEW S \in SUBSET rows, NEW r, IsNewest(r, S)
  PROVE  Newest(S) = r.id
<1> DEFINE c == CHOOSE x \in S : \A s \in S \ {x} : Before(s, x)
<1>1. c \in S /\ \A s \in S \ {c} : Before(s, c)
  BY DEF IsNewest
<1>2. c = r
  <2> SUFFICES ASSUME c # r PROVE FALSE
    OBVIOUS
  <2>1. Before(r, c) /\ Before(c, r) /\ r \in rows /\ c \in rows
    BY <1>1 DEF IsNewest
  <2>2. r.id # c.id /\ r.at \in Nat /\ c.at \in Nat /\ r.id \in Nat /\ c.id \in Nat
    BY <2>1, AuditAssumption DEF TypeOK, RowsOK, AuditAssumption
  <2> QED BY <2>1, <2>2, Ordered
<1>3. S # {}
  BY DEF IsNewest
<1> QED BY <1>2, <1>3 DEF Newest

LEMMA TailIsCommitted ==
  ASSUME TypeOK, RowsOK
  PROVE  Tail \in Writers \cup {NoHash} /\ Committed(Tail)
<1>1. CASE rows = {}
  BY <1>1 DEF Tail, Newest, Committed
<1>2. CASE rows # {}
  <2>1. PICK r \in rows : IsNewest(r, rows)
    BY <1>2 DEF RowsOK, HasEnds
  <2>2. Tail = r.id
    BY <2>1, NewestIs DEF Tail
  <2> QED BY <2>1, <2>2 DEF Committed, TypeOK
<1> QED BY <1>1, <1>2

----------------------------------------------------------------------------
(* Steps *)

WriterRec == [pc : {"idle", "waiting", "linked", "ended"}, prev : Writers \cup {NoHash},
              at : Nat, json : SUBSET Nat]

\* A step that leaves the rows alone.
LEMMA RowsKept ==
  ASSUME Inv, rows' = rows, NEW w \in Writers, writer[w].pc # "ended",
         writer' \in [Writers -> WriterRec],
         \A v \in Writers \ {w} : writer'[v] = writer[v],
         Committed(writer'[w].prev),
         now' \in Nat \ {0}, disturbed' \in BOOLEAN
  PROVE  TypeOK' /\ RowsOK' /\ PrevOK'
<1>1. TypeOK'
  BY DEF Inv, TypeOK, WriterRec
<1>2. \A r \in rows : r.id \in Writers \ {w}
  BY DEF Inv, TypeOK, RowsOK
<1>3. RowsOK'
  BY <1>2 DEF Inv, RowsOK, HasEnds, IsNewest, IsOldest, Before
<1>4. PrevOK'
  BY DEF Inv, PrevOK, Committed
<1> QED BY <1>1, <1>3, <1>4

LEMMA LinkInv ==
  ASSUME Inv, NEW w \in Writers, NEW tail \in Writers \cup {NoHash}, Committed(tail),
         Link(w, tail), rows' = rows,
         \/ writer[w].pc = "idle" /\ tail = Tail
         \/ writer[w].pc = "waiting"
  PROVE  Inv'
<1>1. PICK skew \in 0..MaxSkew, json \in Payloads :
        /\ writer' = [writer EXCEPT ![w] = [pc |-> "linked", prev |-> tail,
                                            at |-> now + skew, json |-> json]]
        /\ now' = now + 1
        /\ disturbed' = (disturbed \/ skew > 0 \/ \E v \in Writers : Underway(v))
  BY DEF Link
<1>2. now \in Nat \ {0} /\ skew \in Nat /\ now + skew \in Nat /\ now' \in Nat \ {0}
  BY <1>1, AuditAssumption DEF Inv, TypeOK, AuditAssumption
<1>3. writer \in [Writers -> WriterRec] /\ disturbed \in BOOLEAN
  BY DEF Inv, TypeOK, WriterRec
<1>4. PICK at \in Nat : at = now + skew
  BY <1>2
<1>5. PICK v \in WriterRec : v = [pc |-> "linked", prev |-> tail, at |-> at, json |-> json]
  BY AuditAssumption DEF WriterRec, AuditAssumption
<1>6. /\ writer' \in [Writers -> WriterRec] /\ writer'[w] = v
      /\ \A u \in Writers \ {w} : writer'[u] = writer[u]
  BY <1>1, <1>3, <1>4, <1>5
<1>7. disturbed' \in BOOLEAN
  BY <1>1, Zenon
<1>8. TypeOK' /\ RowsOK' /\ PrevOK'
  BY <1>2, <1>5, <1>6, <1>7, RowsKept
<1>9. SerialOK'
  <2> SUFFICES ASSUME ~disturbed'
               PROVE  /\ Chained'
                      /\ \A r \in rows' : r.at < now'
                      /\ \A u, x \in Writers : Underway(u)' /\ Underway(x)' => u = x
                      /\ \A u \in Writers :
                           Underway(u)' =>
                             /\ writer'[u].pc = "linked" /\ writer'[u].prev = Newest(rows)'
                             /\ writer'[u].at < now' /\ \A r \in rows' : r.at < writer'[u].at
    BY DEF SerialOK
  <2>1. ~disturbed /\ skew = 0 /\ \A u \in Writers : ~Underway(u)
    <3>1. ~disturbed /\ ~(skew > 0) /\ \A u \in Writers : ~Underway(u)
      BY <1>1, Zenon
    <3>2. skew = 0
      BY <1>2, <3>1
    <3> QED BY <3>1, <3>2
  <2>2. tail = Newest(rows) /\ at = now
    BY <1>2, <1>4, <2>1 DEF Underway, Tail
  <2>3. \A u \in Writers : Underway(u)' => u = w
    BY <1>6, <2>1 DEF Underway
  <2>4. Chained /\ \A r \in rows : r.at < now /\ r.at \in Nat
    BY <2>1 DEF Inv, SerialOK, TypeOK
  <2>5. Chained' /\ Newest(rows)' = Newest(rows)
    BY <2>4 DEF Chained, Earlier, Newest, Before
  <2>6. \A r \in rows : r.at < now'
    BY <1>1, <1>2, <2>4
  <2>7. writer'[w].pc = "linked" /\ writer'[w].prev = tail /\ writer'[w].at = now
    BY <1>5, <1>6, <2>2
  <2>8. now < now'
    BY <1>1, <1>2
  <2> QED BY <2>2, <2>3, <2>4, <2>5, <2>6, <2>7, <2>8
<1> QED BY <1>8, <1>9 DEF Inv

LEMMA WaitInv ==
  ASSUME Inv, NEW w \in Writers, Select(w), TailLocked(w, Tail)
  PROVE  Inv'
<1>1. /\ writer[w].pc = "idle" /\ rows' = rows /\ now' = now /\ disturbed' = TRUE
      /\ writer' = [writer EXCEPT ![w].pc = "waiting", ![w].prev = Tail]
  BY DEF Select
<1>2. PICK tail \in Writers \cup {NoHash} : tail = Tail /\ Committed(tail)
  BY TailIsCommitted DEF Inv
<1>3. writer \in [Writers -> WriterRec] /\ writer[w] \in WriterRec
  BY DEF Inv, TypeOK, WriterRec
<1>4. \A u \in Writers \ {w} : writer'[u] = writer[u]
  BY <1>1, <1>3
<1>5. writer'[w] \in WriterRec /\ writer'[w].prev = tail
  BY <1>1, <1>2, <1>3 DEF WriterRec
<1>6. writer' \in [Writers -> WriterRec]
  BY <1>1, <1>3, <1>4, <1>5
<1>7. TypeOK' /\ RowsOK' /\ PrevOK'
  BY <1>1, <1>2, <1>4, <1>5, <1>6, RowsKept DEF Inv, TypeOK
<1>8. SerialOK'
  BY <1>1 DEF SerialOK
<1> QED BY <1>7, <1>8 DEF Inv

LEMMA AbortInv ==
  ASSUME Inv, NEW w \in Writers, Abort(w)
  PROVE  Inv'
<1>1. /\ Underway(w) /\ UNCHANGED <<rows, now, disturbed>>
      /\ writer' = [writer EXCEPT ![w].pc = "ended"]
  BY DEF Abort
<1>2. writer \in [Writers -> WriterRec] /\ writer[w] \in WriterRec
  BY DEF Inv, TypeOK, WriterRec
<1>3. /\ writer' \in [Writers -> WriterRec] /\ writer'[w].prev = writer[w].prev
      /\ writer'[w].pc = "ended" /\ \A u \in Writers \ {w} : writer'[u] = writer[u]
  BY <1>1, <1>2 DEF WriterRec
<1>4. Committed(writer'[w].prev)
  BY <1>3 DEF Inv, PrevOK
<1>5. TypeOK' /\ RowsOK' /\ PrevOK'
  BY <1>1, <1>3, <1>4, RowsKept DEF Inv, TypeOK, Underway
<1>6. \A u \in Writers : Underway(u)' => Underway(u) /\ writer'[u] = writer[u]
  BY <1>3 DEF Underway
<1>7. Newest(rows)' = Newest(rows) /\ (Chained' <=> Chained)
  BY <1>1 DEF Newest, Chained, Earlier, Before
<1>8. SerialOK'
  BY <1>1, <1>6, <1>7 DEF Inv, SerialOK
<1> QED BY <1>5, <1>8 DEF Inv

\* The row of an undisturbed writer is the newest and chained to the newest.
LEMMA CommitInv ==
  ASSUME Inv, NEW w \in Writers, Commit(w)
  PROVE  Inv'
<1> DEFINE n == [id |-> w, prev |-> writer[w].prev, at |-> writer[w].at,
                json |-> writer[w].json]
<1>1. /\ writer[w].pc = "linked" /\ rows' = rows \cup {n}
      /\ writer' = [writer EXCEPT ![w].pc = "ended"] /\ UNCHANGED <<now, disturbed>>
  BY DEF Commit
<1>2. writer \in [Writers -> WriterRec] /\ writer[w] \in WriterRec
  BY DEF Inv, TypeOK, WriterRec
<1>3. /\ n \in [id : Writers, prev : Writers \cup {NoHash}, at : Nat, json : SUBSET Nat]
      /\ n.id = w /\ n.prev = writer[w].prev /\ n.at = writer[w].at
  BY <1>2 DEF WriterRec
<1> HIDE DEF n
<1>4. /\ writer' \in [Writers -> WriterRec] /\ writer'[w].prev = writer[w].prev
      /\ writer'[w].pc = "ended" /\ \A u \in Writers \ {w} : writer'[u] = writer[u]
  BY <1>1, <1>2 DEF WriterRec
<1>5. TypeOK'
  BY <1>1, <1>3, <1>4 DEF Inv, TypeOK, WriterRec
<1>6. \A r \in rows : /\ r.id \in Nat /\ r.at \in Nat /\ r.id \in Writers /\ r.id # w
                      /\ writer[r.id].pc = "ended"
  BY <1>1, AuditAssumption DEF Inv, TypeOK, RowsOK, AuditAssumption
<1>7. n.id \in Nat /\ n.at \in Nat /\ n \notin rows
  BY <1>3, <1>6, AuditAssumption DEF AuditAssumption
<1>8. RowsOK'
  <2>1. \A r \in rows' : writer'[r.id].pc = "ended"
    BY <1>1, <1>3, <1>4, <1>6
  <2>2. \A r, s \in rows' : r.id = s.id => r = s
    BY <1>1, <1>3, <1>6 DEF Inv, RowsOK
  <2>3. ASSUME NEW S \in SUBSET rows', S # {} PROVE HasEnds(S)
    <3> DEFINE T == S \ {n}
    <3>1. T \in SUBSET rows
      BY <1>1
    <3>2. CASE n \notin S
      <4>1. S = T
        BY <3>2
      <4> QED BY <2>3, <3>1, <4>1 DEF Inv, RowsOK
    <3>3. CASE S = {n}
      BY <3>3 DEF HasEnds, IsNewest, IsOldest
    <3>4. CASE n \in S /\ T # {}
      <4>0. \A s \in T : s \in rows /\ s \in S /\ (Before(s, n) \/ Before(n, s))
        BY <1>3, <1>6, <1>7, <3>1, Ordered
      <4>1. PICK r \in T : IsNewest(r, T)
        BY <3>1, <3>4 DEF Inv, RowsOK, HasEnds
      <4>2. PICK o \in T : IsOldest(o, T)
        BY <3>1, <3>4 DEF Inv, RowsOK, HasEnds
      <4>3. \E x \in S : IsNewest(x, S)
        <5>1. CASE Before(n, r)
          BY <3>4, <4>1, <5>1 DEF IsNewest
        <5>2. CASE Before(r, n)
          <6>1. \A s \in T : Before(s, n)
            BY <1>6, <1>7, <4>0, <4>1, <5>2 DEF IsNewest, Before
          <6> QED BY <3>4, <6>1 DEF IsNewest
        <5> QED BY <4>0, <5>1, <5>2
      <4>4. \E x \in S : IsOldest(x, S)
        <5>1. CASE Before(o, n)
          BY <3>4, <4>2, <5>1 DEF IsOldest
        <5>2. CASE Before(n, o)
          <6>1. \A s \in T : Before(n, s)
            BY <1>6, <1>7, <4>0, <4>2, <5>2 DEF IsOldest, Before
          <6> QED BY <3>4, <6>1 DEF IsOldest
        <5> QED BY <4>0, <5>1, <5>2
      <4> QED BY <4>3, <4>4 DEF HasEnds
    <3> QED BY <2>3, <3>2, <3>3, <3>4
  <2>4. ASSUME NEW S \in SUBSET rows' PROVE HasEnds(S)' <=> HasEnds(S)
    BY DEF HasEnds, IsNewest, IsOldest, Before
  <2>5. IsFiniteSet(rows)'
    BY <1>1, FS_AddElement DEF Inv, RowsOK
  <2> QED BY <2>1, <2>2, <2>3, <2>4, <2>5 DEF RowsOK
<1>9. PrevOK'
  <2>1. \A hash : Committed(hash) => Committed(hash)'
    BY <1>1 DEF Committed
  <2>2. Committed(n.prev) /\ (\A r \in rows : Committed(r.prev))
        /\ \A u \in Writers : Committed(writer[u].prev)
    BY <1>3 DEF Inv, PrevOK
  <2>3. \A r \in rows' : Committed(r.prev)'
    BY <1>1, <2>1, <2>2
  <2>4. \A u \in Writers : writer'[u].prev = NoHash \/ \E s \in rows' : s.id = writer'[u].prev
    <3>1. \A u \in Writers : writer'[u].prev = writer[u].prev
      BY <1>4
    <3> QED BY <1>1, <2>2, <3>1 DEF Committed
  <2> QED BY <2>3, <2>4 DEF PrevOK, Committed
<1>10. SerialOK'
  <2> SUFFICES ASSUME ~disturbed
               PROVE  /\ Chained'
                      /\ \A r \in rows' : r.at < now
                      /\ \A u \in Writers : ~Underway(u)'
    BY <1>1 DEF SerialOK
  <2>1. /\ Chained /\ \A r \in rows : r.at < now
        /\ \A u \in Writers : Underway(u) => u = w
        /\ n.prev = Newest(rows) /\ n.at < now /\ \A r \in rows : r.at < n.at
    BY <1>1, <1>3 DEF Inv, SerialOK, Underway
  <2>2. \A u \in Writers : ~Underway(u)'
    BY <1>4, <2>1 DEF Underway
  <2>3. \A r \in rows' : r.at < now
    BY <1>1, <2>1
  <2>4. \A r \in rows : Before(r, n) /\ ~Before(n, r)
    BY <1>3, <1>6, <1>7, <2>1 DEF Before
  <2>5. {s \in rows' : Before(s, n)} = rows
    BY <1>1, <1>7, <2>4 DEF Before
  <2>6. \A r \in rows : {s \in rows' : Before(s, r)} = {s \in rows : Before(s, r)}
    BY <1>1, <2>4
  <2>7. \A r \in rows : r.prev = Newest({s \in rows : Before(s, r)})
    BY <2>1 DEF Chained, Earlier
  <2>8. \A r \in rows' : r.prev = Newest({s \in rows' : Before(s, r)})
    BY <1>1, <2>1, <2>5, <2>6, <2>7
  <2>9. Chained' <=> \A r \in rows' : r.prev = Newest({s \in rows' : Before(s, r)})
    BY DEF Chained, Earlier, Newest, Before
  <2> QED BY <2>2, <2>3, <2>8, <2>9
<1> QED BY <1>5, <1>8, <1>9, <1>10 DEF Inv

LEMMA Inductive == Spec => []Inv
<1>1. ASSUME Inv, [Next]_vars
      PROVE  Inv'
  <2>1. ASSUME NEW w \in Writers, Select(w)
        PROVE  Inv'
    <3>1. CASE TailLocked(w, Tail)
      BY <1>1, <2>1, <3>1, WaitInv
    <3>2. CASE ~TailLocked(w, Tail)
      <4>1. Link(w, Tail) /\ writer[w].pc = "idle" /\ rows' = rows
        BY <2>1, <3>2 DEF Select
      <4>2. PICK tail \in Writers \cup {NoHash} : tail = Tail /\ Committed(tail)
        BY <1>1, TailIsCommitted DEF Inv
      <4> QED BY <1>1, <4>1, <4>2, LinkInv
    <3> QED BY <3>1, <3>2
  <2>2. ASSUME NEW w \in Writers, Wake(w)
        PROVE  Inv'
    <3>1. Link(w, writer[w].prev) /\ writer[w].pc = "waiting" /\ rows' = rows
      BY <2>2 DEF Wake
    <3>2. PICK tail \in Writers \cup {NoHash} : tail = writer[w].prev /\ Committed(tail)
      BY <1>1 DEF Inv, TypeOK, PrevOK
    <3> QED BY <1>1, <3>1, <3>2, LinkInv
  <2>3. CASE UNCHANGED vars
    <3>1. Newest(rows)' = Newest(rows) /\ (Chained' <=> Chained)
      BY <2>3 DEF vars, Newest, Chained, Earlier, Before
    <3>2. TypeOK' /\ RowsOK' /\ PrevOK'
      BY <1>1, <2>3 DEF vars, Inv, TypeOK, RowsOK, PrevOK, Committed, HasEnds, IsNewest,
         IsOldest, Before
    <3>3. SerialOK'
      BY <1>1, <2>3, <3>1 DEF vars, Inv, SerialOK, Underway
    <3> QED BY <3>2, <3>3 DEF Inv
  <2> QED BY <1>1, <2>1, <2>2, <2>3, CommitInv, AbortInv DEF Next
<1> QED BY <1>1, InitInv, PTL DEF Spec

\* The chain's rows and the writers' local state keep their types, for any
\* number of writers and any skew: a hash is always of a row, or the empty one.
THEOREM TypeCorrect == Spec => []TypeOK
<1>1. Inv => TypeOK
  BY DEF Inv
<1> QED BY <1>1, Inductive, PTL

\* For any number of transactions, waits, rollbacks and clocks: no committed row
\* is chained to a row that was rolled back.
THEOREM PrevAlwaysCommitted == Spec => []PrevIsCommitted
<1> QED BY Inductive, InvGivesPrev, PTL

----------------------------------------------------------------------------
(* What a scan selects *)

\* Stamps and ids of rows are numbers, so rows are ordered.
LEMMA RowsOrdered ==
  ASSUME Inv
  PROVE  /\ \A r \in rows : r.at \in Nat /\ r.id \in Nat /\ r.prev \in Nat /\ r.id # NoHash
         /\ \A r, s \in rows : r # s => Before(r, s) \/ Before(s, r)
         /\ \A r, s \in rows : ~(Before(r, s) /\ Before(s, r))
         /\ \A r, s, t \in rows : Before(r, s) /\ Before(s, t) => Before(r, t)
<1>1. \A r \in rows : r.at \in Nat /\ r.id \in Nat /\ r.prev \in Nat /\ r.id # NoHash
  <2>1. \A r \in rows : r.at \in Nat /\ r.id \in Writers /\ r.prev \in Writers \cup {NoHash}
    BY DEF Inv, TypeOK
  <2>2. (\A w \in Writers : w \in Nat /\ w # NoHash) /\ NoHash \in Nat
    BY AuditAssumption DEF AuditAssumption, NoHash
  <2> QED BY <2>1, <2>2
<1>2. \A r, s \in rows : r # s => r.id # s.id
  BY DEF Inv, RowsOK
<1> QED BY <1>1, <1>2 DEF Before

\* The rows before s that a scan counts.
Counted(S, s, since) == {x \in S : x.at >= since /\ Before(x, s)}

\* A row that comes before a row of the scan is in the scan too, unless it was
\* written before "since"; and so it is when the scan is of fewer rows.
LEMMA ScanClosed ==
  ASSUME Inv, NEW since \in Nat, NEW limit \in Nat, NEW S \in SUBSET rows,
         NEW T \in SUBSET S, NEW r \in Scan(S, since, limit), NEW s \in T,
         s.at >= since, s = r \/ Before(s, r)
  PROVE  s \in Scan(T, since, limit)
<1>1. Counted(T, s, since) \subseteq Counted(S, r, since)
  BY RowsOrdered DEF Counted, Scan
<1>2. IsFiniteSet(Counted(S, r, since))
  BY FS_Subset DEF Counted, Inv, RowsOK
<1>3. /\ IsFiniteSet(Counted(T, s, since))
      /\ Cardinality(Counted(T, s, since)) <= Cardinality(Counted(S, r, since))
  BY <1>1, <1>2, FS_Subset
<1>4. Cardinality(Counted(T, s, since)) \in Nat /\ Cardinality(Counted(S, r, since)) \in Nat
  BY <1>2, <1>3, FS_CardinalityType
<1>5. Cardinality(Counted(S, r, since)) < limit
  BY DEF Counted, Scan
<1>6. Cardinality(Counted(T, s, since)) < limit
  BY <1>3, <1>4, <1>5
<1> QED BY <1>6 DEF Counted, Scan

LEMMA ScanSelects ==
  ASSUME NEW S, NEW since, NEW limit
  PROVE  Scan(S, since, limit) \subseteq S /\ \A r \in Scan(S, since, limit) : r.at >= since
BY DEF Scan

\* Of a chain without forks, the scan sees the row a row was chained to, unless
\* it is the scan's first.
LEMMA InvGivesSerial == Inv => SerialReports
<1> SUFFICES ASSUME Inv, ~disturbed, NEW since \in Starts, NEW limit \in Limits
             PROVE  LET page == Scan(rows, since, limit) IN
                      Mismatches(page) =
                        {r \in page : \/ Stored(r.json) # Written(r.json)
                                      \/ Earlier(r, page) = {} /\ Earlier(r, rows) # {}}
  BY DEF SerialReports
<1> DEFINE page == Scan(rows, since, limit)
<1>1. since \in Nat /\ limit \in Nat
  BY AuditAssumption DEF AuditAssumption, Starts, Limits, Inv, TypeOK
<1>2. page \subseteq rows /\ \A r \in page : r.at >= since
  BY ScanSelects
<1>3. Chained
  BY DEF Inv, SerialOK
<1>4. ASSUME NEW r \in page
      PROVE  Newest(Earlier(r, page)) # r.prev <=> Earlier(r, page) = {} /\ Earlier(r, rows) # {}
  <2>0. r \in rows /\ r.prev = Newest(Earlier(r, rows))
    BY <1>2, <1>3, <1>4 DEF Chained
  <2>1. Earlier(r, page) \subseteq Earlier(r, rows)
    BY <1>2 DEF Earlier
  <2>2. CASE Earlier(r, rows) = {}
    BY <2>0, <2>1, <2>2
  <2>3. CASE Earlier(r, rows) # {}
    <3>1. PICK x \in Earlier(r, rows) : IsNewest(x, Earlier(r, rows))
      <4>1. Earlier(r, rows) \in SUBSET rows
        BY DEF Earlier
      <4> QED BY <2>3, <4>1 DEF Inv, RowsOK, HasEnds
    <3>2. r.prev = x.id /\ x \in rows /\ Before(x, r)
      <4>1. Earlier(r, rows) \in SUBSET rows
        BY DEF Earlier
      <4>2. Newest(Earlier(r, rows)) = x.id
        BY <3>1, <4>1, NewestIs DEF Inv
      <4> QED BY <2>0, <3>1, <4>2 DEF Earlier
    <3>3. CASE Earlier(r, page) = {}
      <4>1. Newest(Earlier(r, page)) = NoHash
        BY <3>3 DEF Newest
      <4> QED BY <2>3, <3>2, <3>3, <4>1, RowsOrdered
    <3>4. CASE Earlier(r, page) # {}
      <4>1. PICK y \in page : Before(y, r)
        BY <3>4 DEF Earlier
      <4>2. x = y \/ Before(y, x)
        BY <1>2, <3>1, <4>1 DEF Earlier, IsNewest
      <4>3. x.at >= since
        <5>1. y \in rows /\ y.at >= since
          BY <1>2, <4>1
        <5>2. x.at \in Nat /\ y.at \in Nat
          BY <3>2, <5>1, RowsOrdered
        <5> QED BY <1>1, <4>2, <5>1, <5>2 DEF Before
      <4>4. x \in page
        BY <1>1, <1>4, <3>2, <4>3, ScanClosed
      <4>5. IsNewest(x, Earlier(r, page))
        BY <2>1, <3>1, <3>2, <4>4 DEF IsNewest, Earlier
      <4>6. Earlier(r, page) \in SUBSET rows
        BY <1>2 DEF Earlier
      <4>7. Newest(Earlier(r, page)) = x.id
        BY <4>5, <4>6, NewestIs DEF Inv
      <4> QED BY <3>2, <3>4, <4>7
    <3> QED BY <3>3, <3>4
  <2> QED BY <2>2, <2>3
<1> HIDE DEF page
<1>5. Mismatches(page) = {r \in page : \/ Newest(Earlier(r, page)) # r.prev
                                       \/ Stored(r.json) # Written(r.json)}
  BY DEF Mismatches
<1>6. Mismatches(page) = {r \in page : \/ Stored(r.json) # Written(r.json)
                                       \/ Earlier(r, page) = {} /\ Earlier(r, rows) # {}}
  BY <1>4, <1>5
<1> QED BY <1>6 DEF page

\* For any number of transactions that never overlap, on hosts whose clocks
\* agree, and for every start and limit of a scan: the verifier reports the
\* rows whose JSON it reads in another order than was hashed, and the first row
\* of a scan that starts in the middle, and no other.
THEOREM SerialAlwaysReports == Spec => []SerialReports
<1> QED BY Inductive, InvGivesSerial, PTL

----------------------------------------------------------------------------
(* Deletions *)

\* A row of the scan that is not its newest has a next row in it.
LEMMA HasNext ==
  ASSUME Inv, NEW page \in SUBSET rows, NEW r \in page, r.id # Newest(page)
  PROVE  \E s \in page \ {r} : IsNewest(r, Earlier(s, page))
<1> DEFINE later == {x \in page \ {r} : Before(r, x)}
<1>1. PICK t \in page : IsNewest(t, page)
  BY DEF Inv, RowsOK, HasEnds
<1>2. t # r
  BY <1>1, NewestIs DEF Inv
<1>3. later \in SUBSET rows /\ later # {}
  BY <1>1, <1>2 DEF IsNewest
<1>4. PICK s \in later : IsOldest(s, later)
  BY <1>3 DEF Inv, RowsOK, HasEnds
<1>5. ASSUME NEW x \in page, Before(x, s), x # r PROVE Before(x, r)
  <2>1. x # s
    BY <1>3, <1>5, RowsOrdered
  <2>2. x \notin later
    BY <1>3, <1>4, <1>5, <2>1, RowsOrdered DEF IsOldest
  <2> QED BY <1>5, <2>2, RowsOrdered
<1>6. IsNewest(r, Earlier(s, page))
  BY <1>4, <1>5 DEF IsNewest, Earlier
<1> QED BY <1>4, <1>6

\* In a page the verifier accepts the next row names the row deleted; it is
\* scanned again, and what is then before it has another hash.
LEMMA InvGivesDeletion == Inv => DeletionDetected
<1> SUFFICES ASSUME Inv, NEW since \in Starts, NEW limit \in Limits,
                    Mismatches(Scan(rows, since, limit)) = {},
                    NEW r \in Scan(rows, since, limit), r.id # Newest(Scan(rows, since, limit))
             PROVE  Mismatches(Scan(rows \ {r}, since, limit)) # {}
  BY DEF DeletionDetected
<1> DEFINE page == Scan(rows, since, limit)
           rest == Scan(rows \ {r}, since, limit)
<1>1. since \in Nat /\ limit \in Nat
  BY AuditAssumption DEF AuditAssumption, Starts, Limits, Inv, TypeOK
<1>2. page \in SUBSET rows /\ (\A x \in page : x.at >= since) /\ rest \subseteq rows \ {r}
  BY ScanSelects
<1>3. PICK s \in page \ {r} : IsNewest(r, Earlier(s, page))
  BY <1>2, HasNext
<1>4. s.prev = r.id
  <2>1. Earlier(s, page) \in SUBSET rows
    BY <1>2 DEF Earlier
  <2>2. Newest(Earlier(s, page)) = r.id
    BY <1>3, <2>1, NewestIs DEF Inv
  <2> QED BY <1>3, <2>2 DEF Mismatches
<1>5. s \in rest
  BY <1>1, <1>2, <1>3, ScanClosed
<1>6. Newest(Earlier(s, rest)) # r.id
  <2>1. CASE Earlier(s, rest) = {}
    BY <1>2, <2>1, RowsOrdered DEF Newest
  <2>2. CASE Earlier(s, rest) # {}
    <3>1. Earlier(s, rest) \in SUBSET (rows \ {r})
      BY <1>2 DEF Earlier
    <3>2. PICK x \in Earlier(s, rest) : IsNewest(x, Earlier(s, rest))
      BY <2>2, <3>1 DEF Inv, RowsOK, HasEnds
    <3>3. Newest(Earlier(s, rest)) = x.id
      BY <3>1, <3>2, NewestIs DEF Inv
    <3> QED BY <1>2, <3>1, <3>2, <3>3 DEF Inv, RowsOK
  <2> QED BY <2>1, <2>2
<1>7. s \in Mismatches(rest)
  <2> HIDE DEF rest
  <2> QED BY <1>4, <1>5, <1>6 DEF Mismatches
<1> QED BY <1>7

\* For any number of rows, written by whatever writers with whatever clocks, and
\* for every start and limit: of the rows a call accepts, none but the last can
\* be deleted without the same call reporting it.
THEOREM DeletionAlwaysDetected == Spec => []DeletionDetected
<1> QED BY Inductive, InvGivesDeletion, PTL
=============================================================================
