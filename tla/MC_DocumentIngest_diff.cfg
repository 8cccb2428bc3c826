SPECIFICATION SafeSpec
SYMMETRY WorkerSymmetry
CONSTANTS
  Docs = {d1}
  Workers = {w1, w2}
  Events = {1, 2}
  ClientEvents = {1, 2}
  Texts = {"a", "b"}
  Contents <- Short
  MaxChunks = 2
  NoContent = NoContent
  Pending = Pending
  Operations = {"upload", "rechunk"}
  Refetchable = TRUE
  EditsAnytime = FALSE
  MaxDeliveries = 2
  MaxFaults = 1
  MaxAborts = 0
INVARIANTS TypeOK QuiescentIsComplete SettledIsAnnounced
PROPERTY StoreIsExact
CHECK_DEADLOCK FALSE
