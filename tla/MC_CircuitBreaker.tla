-------------------------- MODULE MC_CircuitBreaker --------------------------
EXTENDS CircuitBreaker
==============================================================================
