SPECIFICATION SafeSpec
SYMMETRY DocSymmetry
CONSTANTS
  Docs = {d1, d2}
  Workers = {w1}
  Events = {1, 2}
  ClientEvents = {1, 2}
  Texts = {"a"}
  Contents <- OneText
  MaxChunks = 1
  NoContent = NoContent
  Pending = Pending
  Operations = {"upload", "post", "rechunk", "delete", "purge"}
  Refetchable = TRUE
  EditsAnytime = FALSE
  MaxDeliveries = 1
  MaxFaults = 0
  MaxAborts = 0
INVARIANT TwinsWereReuploaded
CHECK_DEADLOCK FALSE
