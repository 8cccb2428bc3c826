SPECIFICATION Spec
CONSTANTS
  Msgs = {m1}
  Replicas = {p1, p2}
  HookAware = TRUE
  MaxDeliveries = 1
  StreamMaxLen = 2
  MaxEntries = 2
  MaxFaults = 1
  HintExpires = TRUE
INVARIANT EffectOnce
PROPERTIES EventuallySettled ImplementsContract
CHECK_DEADLOCK FALSE
