------------------------ MODULE UploadAdmission_proofs ------------------------
(***************************************************************************)
(* The idempotency rows and the quota counter for any number of requests,  *)
(* keys and faults and any limit.  Neither OneUploadPerKey nor QuotaExact  *)
(* is inductive: the first needs what a request that found an expired row  *)
(* may still delete, the second what a transaction has read and that only  *)
(* the holder of the row lock has read anything.                           *)
(***************************************************************************)
EXTENDS UploadAdmission, TLAPS

\* What the unique constraint and the primary key guarantee.
RowsUnique ==
  \A a, b \in rows : (a.key = b.key \/ a.id = b.id) => a = b

\* A request that was let through has its row until the row expires, and no
\* other request is about to delete that row.
ThroughHasRow ==
  \A a \in through :
    /\ \E row \in rows : row.id = a.id /\ row.key = a.key /\ ~row.expired
    /\ \A r \in Requests : req[r].row # a.id

\* A transaction that has counted holds the lock, and what it has read is still
\* so, or counts for nothing because the day is over.
CountedUnderLock ==
  \A r \in Requests :
    Counting(r) => lock = r /\ req[r].seen = (IF At(r, "charging") THEN count ELSE 0)

PCs == {"idle", "insert", "select", "delete", "charge", "charging", "rolling", "lapsed",
        "lookup", "create", "reactivate", "commit", "register"}
Reqs == [pc : PCs, row : RowIds \cup {NoRow}, seen : Nat]

\* A step of the use case.
UseCase(r) == Lookup(r) \/ Save(r) \/ Commit(r) \/ Register(r)

\* Only requests with a key are in check_and_record.
KeyedOnly ==
  \A r \in Requests : req[r].pc \in {"insert", "select", "delete"} => KeyOf[r] \in Keys

RowsOK == RowsUnique /\ ThroughHasRow
QuotaOK == CountedUnderLock /\ QuotaExact
Inv == TypeOK /\ KeyedOnly /\ RowsOK /\ QuotaOK

\* Together the rows and the constraint give one upload per key.
LEMMA OneUpload ==
  ASSUME TypeOK, RowsUnique, ThroughHasRow
  PROVE  OneUploadPerKey
<1> SUFFICES ASSUME NEW a \in through, NEW b \in through, a.key = b.key
             PROVE  a = b
  BY DEF OneUploadPerKey
<1>1. PICK x \in rows : x.id = a.id /\ x.key = a.key
  BY DEF ThroughHasRow
<1>2. PICK y \in rows : y.id = b.id /\ y.key = b.key
  BY DEF ThroughHasRow
<1>3. a.id = b.id
  BY <1>1, <1>2 DEF RowsUnique
<1> QED BY <1>3 DEF TypeOK

LEMMA InitInv == Init => Inv
<1> SUFFICES ASSUME Init PROVE Inv
  OBVIOUS
<1> USE AdmissionAssumption DEF AdmissionAssumption, Init
<1>1. req \in [Requests -> Reqs] /\ \A r \in Requests : req[r] = NoReq
  BY DEF NoReq, Reqs, PCs
<1>2. due \in BOOLEAN
  BY Zenon
<1>3. TypeOK
  BY <1>1, <1>2 DEF TypeOK, Reqs, PCs
<1>4. RowsOK /\ QuotaExact
  BY DEF RowsOK, RowsUnique, ThroughHasRow, QuotaExact
<1>5. KeyedOnly /\ CountedUnderLock
  BY <1>1 DEF KeyedOnly, CountedUnderLock, Counting, NoReq
<1> QED BY <1>3, <1>4, <1>5 DEF Inv, QuotaOK

----------------------------------------------------------------------------
(* What a step does to the local state *)

\* Request r gets another program counter, and no more.
LEMMA PcStep ==
  ASSUME TypeOK, NEW r \in Requests, NEW pc \in PCs, SetPc(r, pc)
  PROVE  /\ req' \in [Requests -> Reqs]
         /\ req'[r].pc = pc /\ req'[r].row = req[r].row /\ req'[r].seen = req[r].seen
         /\ \A s \in Requests \ {r} : req'[s] = req[s]
BY DEF TypeOK, SetPc, Reqs, PCs

\* Request r is answered.
LEMMA RespondStep ==
  ASSUME TypeOK, NEW r \in Requests, Respond(r)
  PROVE  /\ req' \in [Requests -> Reqs] /\ req'[r] = NoReq
         /\ \A s \in Requests \ {r} : req'[s] = req[s]
BY DEF TypeOK, Respond, NoReq, Reqs, PCs

\* Request r gets another program counter and remembers a row.
LEMMA RowStep ==
  ASSUME TypeOK, NEW r \in Requests, NEW pc \in PCs, NEW id \in RowIds \cup {NoRow},
         req' = [req EXCEPT ![r].pc = pc, ![r].row = id]
  PROVE  /\ req' \in [Requests -> Reqs]
         /\ req'[r].pc = pc /\ req'[r].row = id /\ req'[r].seen = req[r].seen
         /\ \A s \in Requests \ {r} : req'[s] = req[s]
<1>1. req \in [Requests -> Reqs] /\ req[r] \in Reqs
  BY DEF TypeOK, Reqs, PCs
<1>2. \A s \in Requests \ {r} : req'[s] = req[s]
  BY <1>1
<1>3. req'[r].pc = pc /\ req'[r].row = id /\ req'[r].seen = req[r].seen /\ req'[r] \in Reqs
  BY <1>1 DEF Reqs
<1>4. req' \in [Requests -> Reqs]
  BY <1>1, <1>2, <1>3
<1> QED BY <1>2, <1>3, <1>4

\* Request r has found a row expired.
LEMMA FoundStep ==
  ASSUME TypeOK, NEW r \in Requests, NEW id \in RowIds,
         req' = [req EXCEPT ![r].pc = "delete", ![r].row = id]
  PROVE  req'[r].row = id /\ \A s \in Requests \ {r} : req'[s] = req[s]
<1>1. req \in [Requests -> Reqs] /\ req[r] \in Reqs
  BY DEF TypeOK, Reqs, PCs
<1>2. req'[r].row = id
  BY <1>1 DEF Reqs
<1>3. \A s \in Requests \ {r} : req'[s] = req[s]
  BY <1>1
<1> QED BY <1>2, <1>3

\* Request r gets another program counter and remembers a count.
LEMMA SeenStep ==
  ASSUME TypeOK, NEW r \in Requests, NEW pc \in PCs, NEW n \in Nat,
         req' = [req EXCEPT ![r].pc = pc, ![r].seen = n]
  PROVE  /\ req' \in [Requests -> Reqs]
         /\ req'[r].pc = pc /\ req'[r].row = req[r].row /\ req'[r].seen = n
         /\ \A s \in Requests \ {r} : req'[s] = req[s]
<1>1. req \in [Requests -> Reqs] /\ req[r] \in Reqs
  BY DEF TypeOK, Reqs, PCs
<1>2. \A s \in Requests \ {r} : req'[s] = req[s]
  BY <1>1
<1>3. req'[r].pc = pc /\ req'[r].row = req[r].row /\ req'[r].seen = n /\ req'[r] \in Reqs
  BY <1>1 DEF Reqs
<1>4. req' \in [Requests -> Reqs]
  BY <1>1, <1>2, <1>3
<1> QED BY <1>2, <1>3, <1>4

----------------------------------------------------------------------------
(* Types *)

LEMMA TypeStep ==
  ASSUME TypeOK, KeyedOnly, [Next]_vars
  PROVE  TypeOK' /\ KeyedOnly'
<1> USE AdmissionAssumption DEF AdmissionAssumption
<1> DEFINE Rest == /\ rows' \subseteq [id : RowIds, key : Keys, expired : BOOLEAN]
                   /\ through' \subseteq [id : RowIds, key : Keys]
                   /\ count' \in Nat /\ charged' \in Nat /\ due' \in BOOLEAN
                   /\ lock' \in Requests \cup {NoOne}
                   /\ titles' \subseteq {NameOf[r] : r \in Requests}
                   /\ urlKeys' \subseteq {UrlOf[r] : r \in Requests}
                   /\ queued' \subseteq Requests /\ answered' \subseteq Requests
                   /\ faults' \in 0..MaxFaults
<1> SUFFICES Rest /\ req' \in [Requests -> Reqs] /\ KeyedOnly'
  BY DEF TypeOK, Reqs, PCs
<1>1. ASSUME NEW r \in Requests, Begin(r) PROVE Rest /\ req' \in [Requests -> Reqs] /\ KeyedOnly'
  <2>1. Rest
    BY <1>1 DEF Begin, quota, docs, TypeOK
  <2>2. CASE KeyOf[r] # NoKey
    BY <1>1, <2>1, <2>2, PcStep DEF Begin, KeyedOnly, PCs
  <2>3. CASE KeyOf[r] = NoKey
    BY <1>1, <2>1, <2>3, PcStep DEF Begin, KeyedOnly, PCs
  <2> QED BY <2>2, <2>3
<1>2. ASSUME NEW r \in Requests, Insert(r) PROVE Rest /\ req' \in [Requests -> Reqs] /\ KeyedOnly'
  <2>1. KeyOf[r] \in Keys
    BY <1>2 DEF Insert, At, KeyedOnly
  <2>2. /\ rows' \subseteq [id : RowIds, key : Keys, expired : BOOLEAN]
        /\ through' \subseteq [id : RowIds, key : Keys]
    <3>1. CASE \E id \in RowIds :
                 /\ rows' = rows \cup {[id |-> id, key |-> KeyOf[r], expired |-> FALSE]}
                 /\ through' = through \cup {Row(id, KeyOf[r])}
      <4>1. PICK id \in RowIds :
              /\ rows' = rows \cup {[id |-> id, key |-> KeyOf[r], expired |-> FALSE]}
              /\ through' = through \cup {Row(id, KeyOf[r])}
        BY <3>1
      <4>2. /\ [id |-> id, key |-> KeyOf[r], expired |-> FALSE]
                 \in [id : RowIds, key : Keys, expired : BOOLEAN]
            /\ Row(id, KeyOf[r]) \in [id : RowIds, key : Keys]
        BY <2>1 DEF Row
      <4> QED BY <4>1, <4>2 DEF TypeOK
    <3>2. CASE UNCHANGED <<rows, through>>
      BY <3>2 DEF TypeOK
    <3> QED BY <1>2, <3>1, <3>2 DEF Insert
  <2>4. Rest
    BY <1>2, <2>2 DEF Insert, quota, docs, TypeOK
  <2>3. SetPc(r, "charge") \/ SetPc(r, "select")
    BY <1>2 DEF Insert
  <2> QED BY <2>1, <2>4, <2>3, PcStep DEF KeyedOnly, PCs
<1>3. ASSUME NEW r \in Requests, Select(r) PROVE Rest /\ req' \in [Requests -> Reqs] /\ KeyedOnly'
  <2>1. Rest
    BY <1>3 DEF Select, quota, docs, TypeOK
  <2>2. KeyOf[r] \in Keys
    BY <1>3 DEF Select, At, KeyedOnly
  <2>3. CASE SetPc(r, "insert")
    BY <2>1, <2>2, <2>3, PcStep DEF KeyedOnly, PCs
  <2>4. CASE Respond(r)
    BY <2>1, <2>4, RespondStep DEF KeyedOnly, NoReq
  <2>5. CASE \E row \in rows : req' = [req EXCEPT ![r].pc = "delete", ![r].row = row.id]
    <3>1. PICK row \in rows : req' = [req EXCEPT ![r].pc = "delete", ![r].row = row.id]
      BY <2>5
    <3>2. row.id \in RowIds
      BY DEF TypeOK
    <3>3. /\ req' \in [Requests -> Reqs] /\ req'[r].pc = "delete"
          /\ \A s \in Requests \ {r} : req'[s] = req[s]
      <4>1. "delete" \in PCs /\ row.id \in RowIds \cup {NoRow}
        BY <3>2 DEF PCs
      <4> HIDE DEF Rest
      <4> QED BY <3>1, <4>1, RowStep
    <3> QED BY <2>1, <2>2, <3>3 DEF KeyedOnly
  <2>6. CASE \E row \in Present(KeyOf[r]) :
               IF row.expired
               THEN req' = [req EXCEPT ![r].pc = "delete", ![r].row = row.id]
               ELSE Respond(r)
    <3>1. PICK row \in rows : \/ req' = [req EXCEPT ![r].pc = "delete", ![r].row = row.id]
                              \/ Respond(r)
      BY <2>6 DEF Present
    <3> QED BY <3>1, <2>4, <2>5
  <2> QED BY <1>3, <2>3, <2>6 DEF Select
<1>4. ASSUME NEW r \in Requests, DeleteExpired(r)
      PROVE Rest /\ req' \in [Requests -> Reqs] /\ KeyedOnly'
  <2>1. Rest
    BY <1>4 DEF DeleteExpired, quota, docs, TypeOK
  <2>2. KeyOf[r] \in Keys
    BY <1>4 DEF DeleteExpired, At, KeyedOnly
  <2>3. req' = [req EXCEPT ![r].pc = "insert", ![r].row = NoRow]
    BY <1>4 DEF DeleteExpired
  <2> QED BY <2>1, <2>2, <2>3, RowStep DEF KeyedOnly, PCs
<1>5. ASSUME NEW r \in Requests, Count(r) PROVE Rest /\ req' \in [Requests -> Reqs] /\ KeyedOnly'
  <2>1. Rest
    BY <1>5 DEF Count, docs, TypeOK
  <2>2. /\ req' = [req EXCEPT ![r].pc = IF due THEN "rolling" ELSE "charging",
                              ![r].seen = IF due THEN 0 ELSE count]
        /\ (IF due THEN "rolling" ELSE "charging") \in {"rolling", "charging"}
        /\ (IF due THEN 0 ELSE count) \in Nat
    BY <1>5 DEF Count, TypeOK
  <2>3. PICK pc \in {"rolling", "charging"}, n \in Nat :
          req' = [req EXCEPT ![r].pc = pc, ![r].seen = n]
    BY <2>2
  <2> QED BY <2>1, <2>3, SeenStep DEF KeyedOnly, PCs
<1>6. ASSUME NEW r \in Requests, Exceed(r) PROVE Rest /\ req' \in [Requests -> Reqs] /\ KeyedOnly'
  <2>1. Rest
    BY <1>6 DEF Exceed, Released, docs, TypeOK
  <2> QED BY <1>6, <2>1, RespondStep DEF Exceed, KeyedOnly, NoReq
<1>7. ASSUME NEW r \in Requests, Charge(r) PROVE Rest /\ req' \in [Requests -> Reqs] /\ KeyedOnly'
  <2>1. count' \in Nat /\ charged' \in Nat /\ lock' \in Requests \cup {NoOne}
    BY <1>7 DEF Charge, Released, TypeOK
  <2>2. due' \in BOOLEAN
    BY <1>7, Zenon DEF Charge
  <2>3. Rest
    BY <1>7, <2>1, <2>2 DEF Charge, TypeOK
  <2>4. Respond(r) \/ SetPc(r, "lookup")
    BY <1>7 DEF Charge
  <2> QED BY <2>3, <2>4, RespondStep, PcStep DEF KeyedOnly, NoReq, PCs
<1>8. ASSUME NEW r \in Requests, UseCase(r) PROVE Rest /\ req' \in [Requests -> Reqs] /\ KeyedOnly'
  <2>1. Rest
    BY <1>8 DEF UseCase, Lookup, Save, Commit, Register, quota, TypeOK
  <2>2. Respond(r) \/ \E pc \in {"create", "reactivate", "commit", "register"} : SetPc(r, pc)
    BY <1>8 DEF UseCase, Lookup, Save, Commit, Register
  <2> QED BY <2>1, <2>2, RespondStep, PcStep DEF KeyedOnly, NoReq, PCs
<1>9. ASSUME NEW r \in Requests, Abort(r) PROVE Rest /\ req' \in [Requests -> Reqs] /\ KeyedOnly'
  <2>1. Rest
    BY <1>9 DEF Abort, Released, docs, TypeOK
  <2> QED BY <1>9, <2>1, RespondStep DEF Abort, KeyedOnly, NoReq
<1>10. CASE (\E id \in RowIds : Expire(id)) \/ Sweep \/ UNCHANGED vars
  <2>1. UNCHANGED <<quota, req, docs, faults>>
    BY <1>10 DEF Expire, Sweep, vars, quota, docs
  <2> DEFINE Stored == [id : RowIds, key : Keys, expired : BOOLEAN]
  <2>2. ASSUME NEW id \in RowIds, Expire(id)
        PROVE  rows' \subseteq Stored /\ through' \subseteq through
    <3>1. ASSUME NEW row \in Stored
          PROVE  [row EXCEPT !.expired = TRUE] \in Stored
      OBVIOUS
    <3>2. rows \subseteq Stored
      BY DEF TypeOK
    <3>3. \A row \in rows' : \E r \in rows : row = r \/ row = [r EXCEPT !.expired = TRUE]
      BY <2>2 DEF Expire
    <3>4. rows' \subseteq Stored
      <4> HIDE DEF Stored
      <4> QED BY <3>1, <3>2, <3>3
    <3> QED BY <2>2, <3>4 DEF Expire
  <2>3. ASSUME Sweep PROVE rows' \subseteq Stored /\ through' \subseteq through
    BY <2>3 DEF Sweep, TypeOK
  <2>4. ASSUME UNCHANGED vars PROVE rows' \subseteq Stored /\ through' \subseteq through
    BY <2>4 DEF vars, TypeOK
  <2>5. rows' \subseteq Stored /\ through' \subseteq through
    BY <1>10, <2>2, <2>3, <2>4
  <2> QED BY <2>1, <2>5 DEF TypeOK, KeyedOnly, Reqs, PCs, quota, docs
<1>11. CASE DayEnds
  <2>1. due' \in BOOLEAN
    BY <1>11, Zenon DEF DayEnds
  <2>2. Rest
    BY <1>11, <2>1 DEF DayEnds, docs, TypeOK
  <2> QED BY <1>11, <2>2 DEF DayEnds, At, KeyedOnly, TypeOK, Reqs, PCs
<1>12. ASSUME NEW url \in urlKeys, ExpireUrl(url)
       PROVE  Rest /\ req' \in [Requests -> Reqs] /\ KeyedOnly'
  <2>1. Rest
    BY <1>12 DEF ExpireUrl, quota, TypeOK
  <2> QED BY <1>12, <2>1 DEF ExpireUrl, TypeOK, KeyedOnly, Reqs, PCs
<1> QED
  BY <1>1, <1>2, <1>3, <1>4, <1>5, <1>6, <1>7, <1>8, <1>9, <1>10, <1>11, <1>12
     DEF Next, Step, UseCase

----------------------------------------------------------------------------
(* The idempotency rows *)

\* A step that leaves the tables alone and lets no request remember a new row.
LEMMA RowsUntouched ==
  ASSUME TypeOK, RowsOK, UNCHANGED <<rows, through>>,
         \A s \in Requests : req'[s].row \in {NoRow, req[s].row}
  PROVE  RowsOK'
<1>1. RowsUnique'
  BY DEF RowsOK, RowsUnique
<1>2. ASSUME NEW a \in through
      PROVE  /\ \E row \in rows : row.id = a.id /\ row.key = a.key /\ ~row.expired
             /\ \A s \in Requests : req'[s].row # a.id
  <2>1. a.id # NoRow
    BY AdmissionAssumption DEF AdmissionAssumption, TypeOK
  <2> QED BY <2>1 DEF RowsOK, ThroughHasRow
<1>3. ThroughHasRow'
  BY <1>2 DEF ThroughHasRow
<1> QED BY <1>1, <1>3 DEF RowsOK

LEMMA InsertRows ==
  ASSUME TypeOK, RowsOK, NEW r \in Requests, Insert(r)
  PROVE  RowsOK'
<1>1. CASE UNCHANGED <<rows, through>>
  <2>1. SetPc(r, "charge") \/ SetPc(r, "select")
    BY DEF Insert
  <2>2. \A s \in Requests : req'[s].row = req[s].row
    BY <2>1, PcStep DEF PCs
  <2> QED BY <1>1, <2>2, RowsUntouched
<1>2. CASE ~UNCHANGED <<rows, through>>
  <2>1. Present(KeyOf[r]) = {}
    BY <1>2 DEF Insert
  <2>2. PICK id \in RowIds :
          /\ Fresh(id)
          /\ rows' = rows \cup {[id |-> id, key |-> KeyOf[r], expired |-> FALSE]}
          /\ through' = through \cup {Row(id, KeyOf[r])}
          /\ SetPc(r, "charge")
    BY <2>1 DEF Insert
  <2>3. \A s \in Requests : req'[s].row = req[s].row
    BY <2>2, PcStep DEF PCs
  <2> DEFINE new == [id |-> id, key |-> KeyOf[r], expired |-> FALSE]
  <2>4. new.id = id /\ new.key = KeyOf[r] /\ ~new.expired /\ rows' = rows \cup {new}
    BY <2>2
  <2>5. \A row \in rows : row.key # KeyOf[r] /\ row.id # id
    BY <2>1, <2>2 DEF Present, Fresh
  <2> HIDE DEF new
  <2>6. RowsUnique'
    BY <2>4, <2>5 DEF RowsOK, RowsUnique
  <2>7. ASSUME NEW a \in through'
        PROVE  /\ \E row \in rows' : row.id = a.id /\ row.key = a.key /\ ~row.expired
               /\ \A s \in Requests : req'[s].row # a.id
    <3>1. CASE a \in through
      <4>1. PICK row \in rows : row.id = a.id /\ row.key = a.key /\ ~row.expired
        BY <3>1 DEF RowsOK, ThroughHasRow
      <4>2. \A s \in Requests : req'[s].row # a.id
        BY <2>3, <3>1 DEF RowsOK, ThroughHasRow
      <4> QED BY <2>4, <4>1, <4>2
    <3>2. CASE a = Row(id, KeyOf[r])
      <4>1. a.id = id /\ a.key = KeyOf[r]
        BY <3>2 DEF Row
      <4> QED BY <2>2, <2>3, <2>4, <4>1 DEF Fresh
    <3> QED BY <2>2, <3>1, <3>2
  <2>8. ThroughHasRow'
    BY <2>7 DEF ThroughHasRow
  <2> QED BY <2>6, <2>8 DEF RowsOK
<1> QED BY <1>1, <1>2

\* A request that found a row expired remembers no row of a request let through.
LEMMA SelectRows ==
  ASSUME TypeOK, RowsOK, NEW r \in Requests, Select(r)
  PROVE  RowsOK'
<1>1. UNCHANGED <<rows, through>>
  BY DEF Select
<1>2. CASE SetPc(r, "insert")
  <2>1. \A s \in Requests : req'[s].row = req[s].row
    BY <1>2, PcStep DEF PCs
  <2> QED BY <1>1, <2>1, RowsUntouched
<1>3. CASE Respond(r)
  <2>1. \A s \in Requests : req'[s].row \in {NoRow, req[s].row}
    BY <1>3, RespondStep DEF NoReq
  <2> QED BY <1>1, <2>1, RowsUntouched
<1>4. CASE \E row \in rows : /\ row.expired
                             /\ req' = [req EXCEPT ![r].pc = "delete", ![r].row = row.id]
  <2>1. PICK row \in rows : /\ row.expired
                            /\ req' = [req EXCEPT ![r].pc = "delete", ![r].row = row.id]
    BY <1>4
  <2>3. req'[r].row = row.id /\ \A s \in Requests \ {r} : req'[s] = req[s]
    <3>1. PICK id \in RowIds : id = row.id
      BY DEF TypeOK
    <3>2. req' = [req EXCEPT ![r].pc = "delete", ![r].row = id]
      BY <2>1, <3>1
    <3> QED BY <3>1, <3>2, FoundStep
  <2>4. \A a \in through : row.id # a.id
    BY <2>1 DEF RowsOK, RowsUnique, ThroughHasRow
  <2>5. \A a \in through, s \in Requests : req'[s].row # a.id
    BY <2>3, <2>4 DEF RowsOK, ThroughHasRow
  <2>6. RowsUnique'
    BY <1>1 DEF RowsOK, RowsUnique
  <2>7. ThroughHasRow'
    BY <1>1, <2>5 DEF RowsOK, ThroughHasRow
  <2> QED BY <2>6, <2>7 DEF RowsOK
<1> QED BY <1>2, <1>3, <1>4 DEF Select, Present

LEMMA DeleteRows ==
  ASSUME TypeOK, RowsOK, NEW r \in Requests, DeleteExpired(r)
  PROVE  RowsOK'
<1>1. rows' = {row \in rows : row.id # req[r].row} /\ through' = through
  BY DEF DeleteExpired
<1>2. req'[r].row = NoRow /\ \A s \in Requests \ {r} : req'[s] = req[s]
  <2>1. req' = [req EXCEPT ![r].pc = "insert", ![r].row = NoRow]
    BY DEF DeleteExpired
  <2>2. "insert" \in PCs /\ NoRow \in RowIds \cup {NoRow}
    BY DEF PCs
  <2>3. /\ req' \in [Requests -> Reqs]
        /\ req'[r].pc = "insert" /\ req'[r].row = NoRow /\ req'[r].seen = req[r].seen
        /\ \A s \in Requests \ {r} : req'[s] = req[s]
    BY <2>1, <2>2, RowStep
  <2> QED BY <2>3
<1>3. RowsUnique'
  BY <1>1 DEF RowsOK, RowsUnique
<1>4. ASSUME NEW a \in through
      PROVE  /\ \E row \in rows' : row.id = a.id /\ row.key = a.key /\ ~row.expired
             /\ \A s \in Requests : req'[s].row # a.id
  <2>1. PICK row \in rows : row.id = a.id /\ row.key = a.key /\ ~row.expired
    BY DEF RowsOK, ThroughHasRow
  <2>2. req[r].row # a.id
    BY DEF RowsOK, ThroughHasRow
  <2>3. row \in rows'
    BY <1>1, <2>1, <2>2
  <2>4. a.id # NoRow
    BY AdmissionAssumption DEF AdmissionAssumption, TypeOK
  <2> QED BY <1>2, <2>1, <2>3, <2>4 DEF RowsOK, ThroughHasRow
<1>5. ThroughHasRow'
  BY <1>1, <1>4 DEF ThroughHasRow
<1> QED BY <1>3, <1>5 DEF RowsOK

\* A request is let through no longer when its row expires; the sweep deletes
\* expired rows only.
LEMMA ExpireRows ==
  ASSUME TypeOK, RowsOK, NEW id \in RowIds, Expire(id)
  PROVE  RowsOK'
<1> DEFINE Old(row) == IF row.id = id THEN [row EXCEPT !.expired = TRUE] ELSE row
<1>1. /\ rows' = {Old(row) : row \in rows} /\ req' = req
      /\ through' = {a \in through : a.id # id}
  BY DEF Expire
<1>2. \A row \in rows : Old(row).id = row.id /\ Old(row).key = row.key
                        /\ (row.id # id => Old(row) = row)
  BY DEF TypeOK
<1> HIDE DEF Old
<1>3. RowsUnique'
  <2> SUFFICES ASSUME NEW a \in rows', NEW b \in rows', a.key = b.key \/ a.id = b.id
               PROVE  a = b
    BY DEF RowsUnique
  <2>1. PICK x \in rows : a = Old(x)
    BY <1>1
  <2>2. PICK y \in rows : b = Old(y)
    BY <1>1
  <2>3. x = y
    BY <1>2, <2>1, <2>2 DEF RowsOK, RowsUnique
  <2> QED BY <2>1, <2>2, <2>3
<1>4. ASSUME NEW a \in through'
      PROVE  /\ \E row \in rows' : row.id = a.id /\ row.key = a.key /\ ~row.expired
             /\ \A s \in Requests : req'[s].row # a.id
  <2>1. a \in through /\ a.id # id
    BY <1>1
  <2>2. PICK row \in rows : row.id = a.id /\ row.key = a.key /\ ~row.expired
    BY <2>1 DEF RowsOK, ThroughHasRow
  <2>3. row \in rows'
    BY <1>1, <1>2, <2>1, <2>2
  <2> QED BY <1>1, <2>1, <2>2, <2>3 DEF RowsOK, ThroughHasRow
<1>5. ThroughHasRow'
  BY <1>4 DEF ThroughHasRow
<1> QED BY <1>3, <1>5 DEF RowsOK

LEMMA SweepRows ==
  ASSUME TypeOK, RowsOK, Sweep
  PROVE  RowsOK'
<1>1. rows' = {row \in rows : ~row.expired} /\ through' = through /\ req' = req
  BY DEF Sweep
<1>2. RowsUnique'
  BY <1>1 DEF RowsOK, RowsUnique
<1>3. ThroughHasRow'
  BY <1>1 DEF RowsOK, ThroughHasRow
<1> QED BY <1>2, <1>3 DEF RowsOK

LEMMA RowsStep ==
  ASSUME TypeOK, RowsOK, [Next]_vars
  PROVE  RowsOK'
<1>1. ASSUME NEW r \in Requests, Begin(r) \/ Exceed(r) \/ Charge(r) \/ UseCase(r) \/ Abort(r)
      PROVE  RowsOK'
  <2>1. UNCHANGED <<rows, through>>
    BY <1>1 DEF Begin, Exceed, Charge, UseCase, Lookup, Save, Commit, Register, Abort
  <2>2. Respond(r) \/ \E pc \in PCs : SetPc(r, pc)
    BY <1>1 DEF Begin, Exceed, Charge, UseCase, Lookup, Save, Commit, Register, Abort, PCs
  <2>3. \A s \in Requests : req'[s].row \in {NoRow, req[s].row}
    BY <2>2, PcStep, RespondStep DEF PCs, NoReq
  <2> QED BY <2>1, <2>3, RowsUntouched
<1>2. ASSUME NEW r \in Requests, Count(r)
      PROVE  RowsOK'
  <2>1. PICK pc \in PCs, n \in Nat : req' = [req EXCEPT ![r].pc = pc, ![r].seen = n]
    <3>1. /\ req' = [req EXCEPT ![r].pc = IF due THEN "rolling" ELSE "charging",
                                ![r].seen = IF due THEN 0 ELSE count]
          /\ (IF due THEN "rolling" ELSE "charging") \in PCs
          /\ (IF due THEN 0 ELSE count) \in Nat
      BY <1>2 DEF Count, TypeOK, PCs
    <3> QED BY <3>1
  <2>2. \A s \in Requests : req'[s].row = req[s].row
    BY <2>1, SeenStep
  <2>3. UNCHANGED <<rows, through>>
    BY <1>2 DEF Count
  <2> QED BY <2>2, <2>3, RowsUntouched
<1>3. CASE DayEnds
  <2>1. \A s \in Requests : req'[s].row = req[s].row
    BY <1>3 DEF DayEnds, TypeOK
  <2>2. UNCHANGED <<rows, through>>
    BY <1>3 DEF DayEnds
  <2> QED BY <2>1, <2>2, RowsUntouched
<1>4. ASSUME UNCHANGED vars \/ \E url \in urlKeys : ExpireUrl(url)
      PROVE  RowsOK'
  BY <1>4, RowsUntouched DEF vars, ExpireUrl
<1> QED
  BY <1>1, <1>2, <1>3, <1>4, InsertRows, SelectRows, DeleteRows, ExpireRows, SweepRows
     DEF Next, Step, UseCase

----------------------------------------------------------------------------
(* The quota *)

\* A step that leaves the quota alone and takes no request in or out of the
\* counting states.
LEMMA QuotaUntouched ==
  ASSUME QuotaOK, UNCHANGED quota,
         \A s \in Requests : \/ req'[s].pc \notin {"charging", "rolling", "lapsed"}
                             \/ req'[s].pc = req[s].pc /\ req'[s].seen = req[s].seen
  PROVE  QuotaOK'
<1>1. QuotaExact'
  BY DEF QuotaOK, QuotaExact, quota
<1>2. CountedUnderLock'
  BY DEF QuotaOK, CountedUnderLock, Counting, At, quota
<1> QED BY <1>1, <1>2 DEF QuotaOK

\* A request that leaves the counting states, the counter as it was: it
\* releases the lock if it holds it, and then nobody else has counted.
LEMMA QuotaReleased ==
  ASSUME TypeOK, QuotaOK, NEW r \in Requests, Released(r), Respond(r),
         UNCHANGED <<count, due, charged>>
  PROVE  QuotaOK'
<1>1. req'[r] = NoReq /\ \A s \in Requests \ {r} : req'[s] = req[s]
  BY RespondStep
<1>2. QuotaExact'
  BY DEF QuotaOK, QuotaExact
<1>3. CountedUnderLock'
  <2> SUFFICES ASSUME NEW s \in Requests, Counting(s)'
               PROVE  (lock = s /\ req[s].seen = (IF At(s, "charging") THEN count ELSE 0))'
    BY DEF CountedUnderLock
  <2>1. s # r
    BY <1>1 DEF Counting, NoReq
  <2>2. req'[s] = req[s] /\ Counting(s)
    BY <1>1, <2>1 DEF Counting
  <2>3. lock = s /\ req[s].seen = (IF At(s, "charging") THEN count ELSE 0)
    BY <2>2 DEF QuotaOK, CountedUnderLock
  <2>4. lock' = s
    BY <2>1, <2>3 DEF Released
  <2> QED BY <2>2, <2>3, <2>4 DEF At
<1> QED BY <1>2, <1>3 DEF QuotaOK

\* Only the lock's holder has counted, so a free lock means nobody has.
LEMMA CountQuota ==
  ASSUME TypeOK, QuotaOK, NEW r \in Requests, Count(r)
  PROVE  QuotaOK'
<1> USE AdmissionAssumption DEF AdmissionAssumption
<1> DEFINE pc == IF due THEN "rolling" ELSE "charging"
           n == IF due THEN 0 ELSE count
<1>1. pc \in {"rolling", "charging"} /\ n \in Nat /\ (pc = "charging" => n = count)
      /\ (pc = "rolling" => n = 0)
  BY DEF TypeOK
<1>2. req' = [req EXCEPT ![r].pc = pc, ![r].seen = n]
  BY DEF Count
<1> HIDE DEF pc, n
<1>3. req'[r].pc = pc /\ req'[r].seen = n /\ \A s \in Requests \ {r} : req'[s] = req[s]
  <2>1. pc \in PCs
    BY <1>1 DEF PCs
  <2>2. /\ req' \in [Requests -> Reqs]
        /\ req'[r].pc = pc /\ req'[r].row = req[r].row /\ req'[r].seen = n
        /\ \A s \in Requests \ {r} : req'[s] = req[s]
    BY <1>1, <1>2, <2>1, SeenStep
  <2> QED BY <2>2
<1>4. \A s \in Requests \ {r} : ~Counting(s)'
  BY <1>3 DEF Count, QuotaOK, CountedUnderLock, Counting
<1>5. CountedUnderLock'
  BY <1>1, <1>3, <1>4 DEF Count, CountedUnderLock, At
<1>6. QuotaExact'
  BY DEF Count, QuotaOK, QuotaExact
<1> QED BY <1>5, <1>6 DEF QuotaOK

LEMMA ChargeQuota ==
  ASSUME TypeOK, QuotaOK, NEW r \in Requests, Charge(r)
  PROVE  QuotaOK'
<1> USE AdmissionAssumption DEF AdmissionAssumption
<1>1. lock = r /\ req[r].seen = (IF At(r, "charging") THEN count ELSE 0)
  BY DEF Charge, QuotaOK, CountedUnderLock
<1>2. Respond(r) \/ SetPc(r, "lookup")
  BY DEF Charge
<1>3. req'[r].pc \in {"idle", "lookup"} /\ \A s \in Requests \ {r} : req'[s] = req[s]
  BY <1>2, RespondStep, PcStep DEF PCs, NoReq
<1>4. \A s \in Requests : ~Counting(s)'
  BY <1>1, <1>3 DEF QuotaOK, CountedUnderLock, Counting
<1>5. CountedUnderLock'
  BY <1>4 DEF CountedUnderLock
<1>6. count' = charged'
  BY <1>1 DEF Charge, QuotaOK, QuotaExact
<1>7. Limit > 0 => count' <= Limit
  BY DEF Charge
<1>8. QuotaExact'
  BY <1>6, <1>7 DEF QuotaExact
<1> QED BY <1>5, <1>8 DEF QuotaOK

LEMMA DayQuota ==
  ASSUME TypeOK, QuotaOK, DayEnds
  PROVE  QuotaOK'
<1>1. QuotaExact'
  BY DEF DayEnds, QuotaOK, QuotaExact
<1>2. \A s \in Requests : /\ req'[s].seen = req[s].seen
                          /\ req'[s].pc = IF At(s, "rolling") THEN "lapsed" ELSE req[s].pc
  BY DEF DayEnds, TypeOK
<1>3. CountedUnderLock'
  BY <1>2 DEF DayEnds, QuotaOK, CountedUnderLock, Counting, At
<1> QED BY <1>1, <1>3 DEF QuotaOK

LEMMA QuotaStep ==
  ASSUME TypeOK, QuotaOK, [Next]_vars
  PROVE  QuotaOK'
<1>1. ASSUME NEW r \in Requests, Begin(r) \/ Insert(r)
      PROVE  QuotaOK'
  <2>1. UNCHANGED quota
    BY <1>1 DEF Begin, Insert
  <2>2. SetPc(r, "insert") \/ SetPc(r, "charge") \/ SetPc(r, "select")
    BY <1>1 DEF Begin, Insert
  <2>3. \A s \in Requests : \/ req'[s].pc \notin {"charging", "rolling", "lapsed"}
                            \/ req'[s].pc = req[s].pc /\ req'[s].seen = req[s].seen
    BY <2>2, PcStep DEF PCs
  <2> QED BY <2>1, <2>3, QuotaUntouched
<1>2. ASSUME NEW r \in Requests, Select(r) \/ DeleteExpired(r)
      PROVE  QuotaOK'
  <2>1. UNCHANGED quota
    BY <1>2 DEF Select, DeleteExpired
  <2>2. req'[r].pc \in {"idle", "insert", "delete"} /\ \A s \in Requests \ {r} : req'[s] = req[s]
    BY <1>2 DEF Select, DeleteExpired, Respond, SetPc, NoReq, TypeOK
  <2>3. \A s \in Requests : \/ req'[s].pc \notin {"charging", "rolling", "lapsed"}
                            \/ req'[s].pc = req[s].pc /\ req'[s].seen = req[s].seen
    BY <2>2
  <2> QED BY <2>1, <2>3, QuotaUntouched
<1>3. ASSUME NEW r \in Requests, Exceed(r) \/ Abort(r)
      PROVE  QuotaOK'
  <2>1. Released(r) /\ Respond(r) /\ UNCHANGED <<count, due, charged>>
    BY <1>3 DEF Exceed, Abort
  <2> QED BY <2>1, QuotaReleased
<1>4. ASSUME NEW r \in Requests, UseCase(r)
      PROVE  QuotaOK'
  <2>1. UNCHANGED quota
    BY <1>4 DEF UseCase, Lookup, Save, Commit, Register
  <2>2. Respond(r) \/ \E pc \in {"create", "reactivate", "commit", "register"} : SetPc(r, pc)
    BY <1>4 DEF UseCase, Lookup, Save, Commit, Register
  <2>3. \A s \in Requests : \/ req'[s].pc \notin {"charging", "rolling", "lapsed"}
                            \/ req'[s].pc = req[s].pc /\ req'[s].seen = req[s].seen
    BY <2>2, RespondStep, PcStep DEF NoReq, PCs
  <2> QED BY <2>1, <2>3, QuotaUntouched
<1>5. CASE \/ (\E id \in RowIds : Expire(id)) \/ (\E url \in urlKeys : ExpireUrl(url))
          \/ Sweep \/ UNCHANGED vars
  <2>1. UNCHANGED <<quota, req>>
    BY <1>5 DEF Expire, ExpireUrl, Sweep, vars, quota
  <2> QED BY <2>1, QuotaUntouched
<1> QED
  BY <1>1, <1>2, <1>3, <1>4, <1>5, CountQuota, ChargeQuota, DayQuota
     DEF Next, Step, UseCase

----------------------------------------------------------------------------

LEMMA Inductive == Spec => []Inv
<1>1. Inv /\ [Next]_vars => Inv'
  BY TypeStep, RowsStep, QuotaStep DEF Inv
<1> QED BY <1>1, InitInv, PTL DEF Spec

\* The tables, the counter and the requests keep their types: no request frees
\* the quota of another, and no charge is ever taken back below zero.
THEOREM TypeCorrect == Spec => []TypeOK
<1>1. Inv => TypeOK
  BY DEF Inv
<1> QED BY <1>1, Inductive, PTL

\* For any number of requests, keys and time-outs, at most one request per key
\* is let through while its row has not expired.
THEOREM OneUploadPerKeyAlways == Spec => []OneUploadPerKey
<1>1. Inv => OneUploadPerKey
  BY OneUpload DEF Inv, RowsOK
<1> QED BY <1>1, Inductive, PTL

\* For any limit, any number of requests and midnight at any moment, the
\* counter is the number of charges of the day and within the limit.
THEOREM QuotaExactAlways == Spec => []QuotaExact
<1>1. Inv => QuotaExact
  BY DEF Inv, QuotaOK
<1> QED BY <1>1, Inductive, PTL
=============================================================================
