--------------------------- MODULE MC_AuditChain ---------------------------
EXTENDS AuditChain

\* Two of the keys of a replay's row: 1 is outbox_id, 2 is subject.  The rows
\* that name both have them in another order in jsonb.
MC_Size == [k \in {1, 2} |-> IF k = 1 THEN 9 ELSE 7]
============================================================================
