SPECIFICATION Spec
CONSTANTS
  Docs = {d1}
  Workers = {w1}
  Events = {1, 2, 3, 4}
  ClientEvents = {1}
  Texts = {"a", "b"}
  Contents <- OneText
  MaxChunks = 1
  NoContent = NoContent
  Pending = Pending
  Operations = {"upload"}
  Refetchable = TRUE
  EditsAnytime = FALSE
  MaxDeliveries = 2
  MaxFaults = 1
  MaxAborts = 1
PROPERTY DraftIsRecovered
CHECK_DEADLOCK FALSE
