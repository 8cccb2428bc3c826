SPECIFICATION Spec
CONSTANTS
  Rows = {1, 2}
  Replicas = {p1, p2}
  MaxRetries = 1
  MaxInterrupts = 1
  MaxLate = 1
INVARIANTS TypeOK ProcessedIsOnStream DlqAfterBudget
PROPERTIES ProcessedNeverResent DlqNeverResent EventuallySettled ImplementsContract
CHECK_DEADLOCK FALSE
