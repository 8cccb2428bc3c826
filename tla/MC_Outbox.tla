----------------------------- MODULE MC_Outbox -----------------------------
EXTENDS OutboxPublisher
============================================================================
