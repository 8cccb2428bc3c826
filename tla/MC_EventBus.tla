---------------------------- MODULE MC_EventBus ----------------------------
EXTENDS EventBus, TLC
Symmetry == Permutations(Replicas) \cup Permutations(Msgs)
============================================================================
