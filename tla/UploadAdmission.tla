---------------------------- MODULE UploadAdmission ----------------------------
(***************************************************************************)
(* What an upload passes before its document is queued: the idempotency    *)
(* key of the partner's request (ingest_idempotency_keys, with a unique    *)
(* constraint and a time to live), the tenant's daily document quota       *)
(* (quotas, one row, locked), and the use case's own 24 h key of the       *)
(* source URL in Redis.  Two mounted routes share the quota:               *)
(*   create   POST /documents/create: key, then quota, then use case, each *)
(*            committed on its own;                                        *)
(*   inline   the test chat's upload: quota and row in one transaction.    *)
(* (The stream upload charges it too, but no application mounts it.)       *)
(*                                                                         *)
(* A client sends its request again until it is told "queued".  Times      *)
(* are abstracted: a row expires at any moment, a day ends at any moment.  *)
(* No event carries the key, so the worker never marks a row done or       *)
(* failed: every row says "processing" until it expires.                   *)
(***************************************************************************)
EXTENDS Integers, FiniteSets

CONSTANTS
  Requests,   \* requests of clients, a retry of an upload included
  Keys,       \* X-Idempotency-Key values
  KeyOf,      \* the key of a request, or NoKey
  NoKey,
  RouteOf,    \* the route of a request,
  NameOf,     \* the tool_name of its document
  UrlOf,      \* and its source URL
  RowIds,     \* bound: primary keys of idempotency rows, reused
  NoRow,
  Limit,      \* documents_per_day_limit; 0 is no limit
  MaxFaults   \* bound: requests that die or raise half-way

NoOne == "none"   \* no request holds the lock

ASSUME AdmissionAssumption ==
  /\ NoOne \notin Requests
  /\ NoKey \notin Keys /\ NoRow \notin RowIds
  /\ KeyOf \in [Requests -> Keys \cup {NoKey}]
  /\ RouteOf \in [Requests -> {"create", "inline"}]
  /\ DOMAIN NameOf = Requests /\ DOMAIN UrlOf = Requests
  /\ \A r \in Requests : KeyOf[r] # NoKey => RouteOf[r] = "create"
  /\ \A r, s \in Requests : RouteOf[r] = "inline" /\ NameOf[r] = NameOf[s] => r = s
  /\ Limit \in Nat /\ MaxFaults \in Nat

VARIABLES
  rows,      \* ingest_idempotency_keys
  through,   \* rows not expired whose request was let through (history)
  count,     \* documents_today_count
  due,       \* whether documents_today_reset_at has passed
  charged,   \* charges committed since the count was last reset (history)
  lock,      \* the request that holds the quotas row
  req,       \* the requests' local state
  titles,    \* tool_names that have a row in documents
  queued,    \* requests whose document and event are committed
  urlKeys,   \* URLs registered in Redis
  answered,  \* requests answered with the job registered for their URL
  faults     \* requests that died so far

vars == <<rows, through, count, due, charged, lock, req, titles, queued, urlKeys, answered,
          faults>>
quota == <<count, due, charged, lock>>
docs == <<titles, queued, urlKeys, answered>>

NoReq == [pc |-> "idle", row |-> NoRow, seen |-> 0]

Row(id, key) == [id |-> id, key |-> key]

Init ==
  /\ rows = {} /\ through = {}
  /\ count = 0 /\ due = FALSE /\ charged = 0 /\ lock = NoOne
  /\ req = [r \in Requests |-> NoReq]
  /\ titles = {} /\ queued = {} /\ urlKeys = {} /\ answered = {} /\ faults = 0

At(r, pc) == req[r].pc = pc
SetPc(r, pc) == req' = [req EXCEPT ![r].pc = pc]
Respond(r) == req' = [req EXCEPT ![r] = NoReq]

Begin(r) ==
  /\ At(r, "idle") /\ r \notin queued \cup answered
  /\ SetPc(r, IF KeyOf[r] # NoKey THEN "insert" ELSE "charge")
  /\ UNCHANGED <<rows, through, quota, docs, faults>>

----------------------------------------------------------------------------
(* IngestIdempotencyService.check_and_record *)

Present(key) == {row \in rows : row.key = key}

Fresh(id) ==
  /\ \A row \in rows \cup through : row.id # id
  /\ \A r \in Requests : req[r].row # id

\* The unique constraint decides; the winner goes on.  Which new id it is
\* makes no difference.
Insert(r) ==
  /\ At(r, "insert")
  /\ IF Present(KeyOf[r]) = {}
     THEN LET id == CHOOSE x \in RowIds : Fresh(x) IN
            /\ \E x \in RowIds : Fresh(x)
            /\ rows' = rows \cup {[id |-> id, key |-> KeyOf[r], expired |-> FALSE]}
            /\ through' = through \cup {Row(id, KeyOf[r])}
            /\ SetPc(r, "charge")
     ELSE SetPc(r, "select") /\ UNCHANGED <<rows, through>>
  /\ UNCHANGED <<quota, docs, faults>>


\* The row of the collision: gone, expired, or the request is a duplicate.
Select(r) ==
  /\ At(r, "select")
  /\ \/ Present(KeyOf[r]) = {} /\ SetPc(r, "insert")
     \/ \E row \in Present(KeyOf[r]) :
          IF row.expired
          THEN req' = [req EXCEPT ![r].pc = "delete", ![r].row = row.id]
          ELSE Respond(r)
  /\ UNCHANGED <<rows, through, quota, docs, faults>>

\* Mutant: the expired row is deleted by its key.
DeleteExpiredByKey(r) ==
  /\ At(r, "delete")
  /\ rows' = rows \ Present(KeyOf[r])
  /\ req' = [req EXCEPT ![r].pc = "insert", ![r].row = NoRow]
  /\ UNCHANGED <<through, quota, docs, faults>>

\* DELETE by primary key; another request may have deleted it already.
DeleteExpired(r) ==
  /\ At(r, "delete")
  /\ rows' = {row \in rows : row.id # req[r].row}
  /\ req' = [req EXCEPT ![r].pc = "insert", ![r].row = NoRow]
  /\ UNCHANGED <<through, quota, docs, faults>>

Expire(id) ==
  /\ \E row \in rows : row.id = id /\ ~row.expired
  /\ rows' = {IF row.id = id THEN [row EXCEPT !.expired = TRUE] ELSE row : row \in rows}
  /\ through' = {row \in through : row.id # id}
  /\ UNCHANGED <<quota, req, docs, faults>>

\* scripts/cleanup_expired_idempotency_keys.py
Sweep ==
  /\ \E row \in rows : row.expired
  /\ rows' = {row \in rows : ~row.expired}
  /\ UNCHANGED <<through, quota, req, docs, faults>>

----------------------------------------------------------------------------
(* IngestQuotaService.check_and_increment *)

\* Mutant: SELECT without FOR UPDATE.
CountUnlocked(r) ==
  /\ At(r, "charge")
  /\ req' = [req EXCEPT ![r].pc = IF due THEN "rolling" ELSE "charging",
                        ![r].seen = IF due THEN 0 ELSE count]
  /\ UNCHANGED <<rows, through, quota, docs, faults>>

\* SELECT ... FOR UPDATE: the lock, then the count, zero when the day is over.
Count(r) ==
  /\ At(r, "charge") /\ lock = NoOne
  /\ lock' = r
  /\ req' = [req EXCEPT ![r].pc = IF due THEN "rolling" ELSE "charging",
                        ![r].seen = IF due THEN 0 ELSE count]
  /\ UNCHANGED <<rows, through, count, due, charged, docs, faults>>

\* Has counted: on the day of the anchor, on a new day, or on a day that has
\* ended since.
Counting(r) == req[r].pc \in {"charging", "rolling", "lapsed"}

Released(r) == lock' = IF lock = r THEN NoOne ELSE lock

\* QuotaExceeded: 429, the transaction is rolled back.
Exceed(r) ==
  /\ Counting(r) /\ Limit > 0 /\ req[r].seen + 1 > Limit
  /\ Released(r) /\ Respond(r)
  /\ UNCHANGED <<rows, through, count, due, charged, docs, faults>>

\* UPDATE and COMMIT; on the inline route the document is part of it.
Charge(r) ==
  /\ Counting(r) /\ (Limit > 0 => req[r].seen + 1 <= Limit)
  /\ count' = req[r].seen + 1
  /\ charged' = IF At(r, "charging") THEN charged + 1 ELSE 1
  /\ due' = (due /\ ~At(r, "rolling"))
  /\ Released(r)
  /\ IF RouteOf[r] = "inline"
     THEN /\ Respond(r)
          /\ queued' = queued \cup {r} /\ titles' = titles \cup {NameOf[r]}
     ELSE SetPc(r, "lookup") /\ UNCHANGED <<queued, titles>>
  /\ UNCHANGED <<rows, through, urlKeys, answered, faults>>

\* Midnight.
DayEnds ==
  /\ ~due \/ \E r \in Requests : At(r, "rolling")
  /\ due' = TRUE
  /\ req' = [r \in Requests |-> IF At(r, "rolling") THEN [req[r] EXCEPT !.pc = "lapsed"]
                                ELSE req[r]]
  /\ UNCHANGED <<rows, through, count, charged, lock, docs, faults>>

----------------------------------------------------------------------------
(* IngestDocumentUseCase.execute *)

\* A document of that name is re-ingested.  For a new name a job that is still
\* registered for the URL is the answer, and nothing is committed.
Lookup(r) ==
  /\ At(r, "lookup")
  /\ IF NameOf[r] \notin titles /\ UrlOf[r] \in urlKeys
     THEN Respond(r) /\ answered' = answered \cup {r}
     ELSE /\ SetPc(r, IF NameOf[r] \in titles THEN "reactivate" ELSE "create")
          /\ UNCHANGED answered
  /\ UNCHANGED <<rows, through, quota, titles, queued, urlKeys, faults>>

\* The document row, committed on its own.  A row of the same name committed
\* since the lookup makes uq_doc_tool refuse a new one: an error.
Save(r) ==
  /\ \/ /\ At(r, "reactivate") \/ (At(r, "create") /\ NameOf[r] \notin titles)
        /\ SetPc(r, "commit") /\ titles' = titles \cup {NameOf[r]}
     \/ At(r, "create") /\ NameOf[r] \in titles /\ Respond(r) /\ UNCHANGED titles
  /\ UNCHANGED <<rows, through, quota, queued, urlKeys, answered, faults>>

\* The job and the event.
Commit(r) ==
  /\ At(r, "commit")
  /\ queued' = queued \cup {r}
  /\ SetPc(r, "register")
  /\ UNCHANGED <<rows, through, quota, titles, urlKeys, answered, faults>>

\* After the commit, for 24 hours.
Register(r) ==
  /\ At(r, "register")
  /\ urlKeys' = urlKeys \cup {UrlOf[r]}
  /\ Respond(r)
  /\ UNCHANGED <<rows, through, quota, titles, queued, answered, faults>>

ExpireUrl(url) ==
  /\ url \in urlKeys
  /\ urlKeys' = urlKeys \ {url}
  /\ UNCHANGED <<rows, through, quota, req, titles, queued, answered, faults>>

\* Mutant: the charge is given back, whether there was one or not.
AbortRefunding(r) ==
  /\ ~At(r, "idle") /\ faults < MaxFaults
  /\ faults' = faults + 1
  /\ count' = count - 1
  /\ Released(r) /\ Respond(r)
  /\ UNCHANGED <<rows, through, due, charged, docs>>

\* A file that is refused, an error of the database, a process that dies:
\* what is committed stays.
Abort(r) ==
  /\ ~At(r, "idle") /\ faults < MaxFaults
  /\ faults' = faults + 1
  /\ Released(r) /\ Respond(r)
  /\ UNCHANGED <<rows, through, count, due, charged, docs>>

----------------------------------------------------------------------------

Step(r) ==
  \/ Insert(r) \/ Select(r) \/ DeleteExpired(r)
  \/ Exceed(r) \/ Charge(r)
  \/ Lookup(r) \/ Save(r) \/ Commit(r) \/ Register(r)

Next ==
  \/ \E r \in Requests : Begin(r) \/ Step(r) \/ Count(r) \/ Abort(r)
  \/ \E id \in RowIds : Expire(id)
  \/ \E url \in urlKeys : ExpireUrl(url)
  \/ Sweep
  \/ DayEnds

Spec == Init /\ [][Next]_vars

\* Requests proceed, waiters for a row lock are served, clients send again
\* what was not queued, rows and days come to their end.  Nothing is assumed
\* of the sweep and of the keys in Redis.
FairSpec ==
  /\ Spec
  /\ \A r \in Requests : WF_vars(Begin(r)) /\ WF_vars(Step(r)) /\ SF_vars(Count(r))
  /\ \A id \in RowIds : WF_vars(Expire(id))
  /\ WF_vars(DayEnds)

----------------------------------------------------------------------------
(* Properties *)

\* Types.  A count is never negative, and a key's row is always of a known key.
TypeOK ==
  /\ rows \subseteq [id : RowIds, key : Keys, expired : BOOLEAN]
  /\ through \subseteq [id : RowIds, key : Keys]
  /\ count \in Nat /\ charged \in Nat /\ due \in BOOLEAN
  /\ lock \in Requests \cup {NoOne}
  /\ req \in [Requests -> [pc : {"idle", "insert", "select", "delete", "charge", "charging",
                                 "rolling", "lapsed", "lookup", "create", "reactivate",
                                 "commit", "register"},
                           row : RowIds \cup {NoRow}, seen : Nat]]
  /\ titles \subseteq {NameOf[r] : r \in Requests}
  /\ urlKeys \subseteq {UrlOf[r] : r \in Requests}
  /\ queued \subseteq Requests /\ answered \subseteq Requests /\ faults \in 0..MaxFaults

\* "Partner retries within this window with the same X-Idempotency-Key ...
\* does NOT double-ingest": of the requests with one key at most one is let
\* through for as long as its row has not expired, although requests find a
\* row expired, delete it and insert their own at the same time, and the sweep
\* deletes beside them.
OneUploadPerKey ==
  \A a, b \in through : a.key = b.key => a = b

\* However many requests are charged at once and whenever midnight falls, no
\* charge is lost and a day's charges stay within the limit.
QuotaExact ==
  /\ count = charged
  /\ Limit > 0 => charged <= Limit

=============================================================================
