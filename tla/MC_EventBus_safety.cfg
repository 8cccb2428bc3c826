SPECIFICATION SafeSpec
SYMMETRY Symmetry
CONSTANTS
  Msgs = {m1}
  Replicas = {p1, p2}
  HookAware = FALSE
  MaxDeliveries = 1
  StreamMaxLen = 2
  MaxEntries = 2
  MaxFaults = 1
  HintExpires = FALSE
INVARIANTS TypeOK NoSilentDrop InboxMeansEffect DeliveriesBounded
PROPERTIES SettledIsFinal ImplementsSafeContract
CHECK_DEADLOCK FALSE
