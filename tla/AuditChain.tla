----------------------------- MODULE AuditChain -----------------------------
(***************************************************************************)
(* The hash chain of one tenant's audit_log: transactions that append with *)
(* insert_audit_row, and what the verifier says of the rows they leave.    *)
(*                                                                         *)
(* A writer locks and reads the newest row (SELECT ... ORDER BY created_at *)
(* DESC, id DESC LIMIT 1 FOR UPDATE), stamps its row with its own clock,   *)
(* chains it to the row read, and commits later with the caller's change.  *)
(* The transactions run at READ COMMITTED: a writer that waited for the    *)
(* row lock gets the row it had selected, since the winner inserted a row  *)
(* and changed none.                                                       *)
(*                                                                         *)
(* SHA-256 is taken to be injective: a row's hash stands for the hash it   *)
(* was chained to ("prev") and the text of its JSON column, and is named   *)
(* by the row's id.  Writer and verifier do not make that text the same    *)
(* way: json.dumps sorts the keys alphabetically, jsonb::text gives them   *)
(* by length first.  A writer is one transaction that appends one row.     *)
(***************************************************************************)
EXTENDS Integers, FiniteSets

CONSTANTS
  Writers,  \* transactions; a writer's number is the id of its row
  MaxSkew,  \* how far the hosts' clocks disagree, in stamps
  Payloads, \* JSON values: sets of keys, numbered in alphabetical order
  Size,     \* a key's length in bytes
  MaxLimit  \* the largest number of rows a scan may ask for

ASSUME AuditAssumption ==
  /\ Writers \subseteq Nat \ {0} /\ MaxSkew \in Nat /\ MaxLimit \in Nat \ {0}
  /\ Payloads \subseteq SUBSET Nat

VARIABLES
  rows,       \* committed rows
  writer,     \* per transaction: where it is
  now,        \* stamps taken so far
  disturbed   \* whether two writers ever disturbed, or a clock was ahead

vars == <<rows, writer, now, disturbed>>

NoHash == 0  \* the empty prev_hash of a first row

Init ==
  /\ rows = {}
  /\ writer = [w \in Writers |-> [pc |-> "idle", prev |-> NoHash, at |-> 0, json |-> {}]]
  /\ now = 1
  /\ disturbed = FALSE

\* The (created_at, id) order of the verifier's scan and of the tail query.
Before(r, s) == r.at < s.at \/ (r.at = s.at /\ r.id < s.id)

\* The hash of the newest row of S, or the empty hash.
Newest(S) ==
  IF S = {} THEN NoHash ELSE (CHOOSE r \in S : \A s \in S \ {r} : Before(s, r)).id

\* Mutants of the tail query: newest by id alone; rows of other transactions
\* read before they are committed.
TailById ==
  IF rows = {} THEN NoHash ELSE (CHOOSE r \in rows : \A s \in rows : s.id <= r.id).id

TailUncommitted ==
  Newest(rows \cup {[id |-> w, prev |-> writer[w].prev, at |-> writer[w].at,
                     json |-> writer[w].json] :
                      w \in {v \in Writers : writer[v].pc = "linked"}})

Tail == Newest(rows)

Underway(w) == writer[w].pc \in {"waiting", "linked"}

\* The row lock on the tail is held until its holder's transaction ends.
TailLocked(w, tail) ==
  tail # NoHash /\ \E v \in Writers \ {w} : writer[v].pc = "linked" /\ writer[v].prev = tail

\* created_at comes from the writer's clock, the hash from the row it read and
\* from what it is to record.
Link(w, tail) ==
  \E skew \in 0..MaxSkew, json \in Payloads :
    /\ writer' = [writer EXCEPT ![w] = [pc |-> "linked", prev |-> tail,
                                        at |-> now + skew, json |-> json]]
    /\ now' = now + 1
    /\ disturbed' = (disturbed \/ skew > 0 \/ \E v \in Writers : Underway(v))

\* The SELECT: an empty chain has no row to lock.
Select(w) ==
  /\ writer[w].pc = "idle"
  /\ IF TailLocked(w, Tail)
     THEN /\ writer' = [writer EXCEPT ![w].pc = "waiting", ![w].prev = Tail]
          /\ disturbed' = TRUE
          /\ UNCHANGED now
     ELSE Link(w, Tail)
  /\ UNCHANGED rows

\* The lock is free: the row selected before the wait is the one returned.
Wake(w) ==
  /\ writer[w].pc = "waiting"
  /\ ~TailLocked(w, writer[w].prev)
  /\ Link(w, writer[w].prev)
  /\ UNCHANGED rows

\* Mutant: created_at is left to the server default.
CommitUnstamped(w) ==
  /\ writer[w].pc = "linked"
  /\ rows' = rows \cup {[id |-> w, prev |-> writer[w].prev, json |-> writer[w].json]}
  /\ writer' = [writer EXCEPT ![w].pc = "ended"]
  /\ UNCHANGED <<now, disturbed>>

\* The caller commits; the flush inserts the row.
Commit(w) ==
  /\ writer[w].pc = "linked"
  /\ rows' = rows \cup {[id |-> w, prev |-> writer[w].prev, at |-> writer[w].at,
                         json |-> writer[w].json]}
  /\ writer' = [writer EXCEPT ![w].pc = "ended"]
  /\ UNCHANGED <<now, disturbed>>

\* The caller's transaction is rolled back, or its process dies.
Abort(w) ==
  /\ Underway(w)
  /\ writer' = [writer EXCEPT ![w].pc = "ended"]
  /\ UNCHANGED <<rows, now, disturbed>>

Next == \E w \in Writers : Select(w) \/ Wake(w) \/ Commit(w) \/ Abort(w)

Spec == Init /\ [][Next]_vars

----------------------------------------------------------------------------
(* verify_audit_chain *)

\* The text of a JSON value, as the order of its keys: what the writer hashes
\* (json.dumps, sort_keys), and what the verifier reads back (jsonb::text).
Written(json) == {k \in json \X json : k[1] < k[2]}

Stored(json) ==
  {k \in json \X json :
     Size[k[1]] < Size[k[2]] \/ (Size[k[1]] = Size[k[2]] /\ k[1] < k[2])}

\* The rows a call selects from S: the first of those from "since" on.
Scan(S, since, limit) ==
  {r \in S : r.at >= since /\ Cardinality({s \in S : s.at >= since /\ Before(s, r)}) < limit}

Earlier(r, S) == {s \in S : Before(s, r)}

\* Mutant: only the newest link is recomputed.
MismatchesOfTail(S) ==
  {r \in S : r.id = Newest(S)
             /\ <<Newest(Earlier(r, S)), Stored(r.json)>> # <<r.prev, Written(r.json)>>}

\* The rows selected whose stored hash is not the one recomputed from the row
\* before; after a mismatch the scan goes on from the stored hash.
Mismatches(S) ==
  {r \in S : <<Newest(Earlier(r, S)), Stored(r.json)>> # <<r.prev, Written(r.json)>>}

\* The calls of the endpoint; a call without "since" is one from 0.
Starts == 0..(now + MaxSkew)
Limits == 1..MaxLimit

----------------------------------------------------------------------------
(* Properties *)

\* Every variable has its type.
TypeOK ==
  /\ rows \subseteq [id : Writers, prev : Writers \cup {NoHash}, at : Nat, json : SUBSET Nat]
  /\ writer \in [Writers -> [pc : {"idle", "waiting", "linked", "ended"},
                             prev : Writers \cup {NoHash}, at : Nat, json : SUBSET Nat]]
  /\ now \in Nat \ {0}
  /\ disturbed \in BOOLEAN

\* Whatever the clocks and the waits do, a row is chained to a row that was
\* committed, never to one of a transaction that was rolled back.
PrevIsCommitted ==
  \A r \in rows : r.prev = NoHash \/ \E s \in rows : s.id = r.prev

\* Transactions that never overlap, on hosts whose clocks agree, leave a chain
\* of which every call of the verifier, from whatever moment and of however
\* many rows, reports two kinds of rows and no other: those whose JSON has its
\* keys in another order in jsonb than the writer hashed them, and the first
\* row of a scan that starts in the middle of the chain.
SerialReports ==
  ~disturbed =>
    \A since \in Starts, limit \in Limits :
      LET page == Scan(rows, since, limit) IN
        Mismatches(page) =
          {r \in page : \/ Stored(r.json) # Written(r.json)
                        \/ Earlier(r, page) = {} /\ Earlier(r, rows) # {}}

\* When a call of the verifier accepts the rows it scans, the same call reports
\* a mismatch once any of them but the last is deleted ("a row was DELETEd: the
\* next row's prev_hash reference is gone").  Of the rows beyond its limit or
\* before "since" an accepting call says nothing.
DeletionDetected ==
  \A since \in Starts, limit \in Limits :
    LET page == Scan(rows, since, limit) IN
      Mismatches(page) = {} =>
        \A r \in page : r.id # Newest(page) =>
          Mismatches(Scan(rows \ {r}, since, limit)) # {}

\* Stated by the docstring of audit_chain_writer: "the loser blocks until the
\* winner commits, then reads the new tail.  This pattern preserves chain
\* linearity".  Checked where there is a row to lock: an empty chain has none.
ChainIsLinear == \A r, s \in rows : r.prev = s.prev /\ r.prev # NoHash => r = s
============================================================================
