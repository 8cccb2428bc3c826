SPECIFICATION Spec
CONSTANTS
  Writers = {1, 2, 3, 4}
  MaxSkew = 1
  Payloads = {{1}, {1, 2}}
  Size <- MC_Size
  MaxLimit = 2
INVARIANTS TypeOK SerialReports PrevIsCommitted DeletionDetected
CHECK_DEADLOCK FALSE
