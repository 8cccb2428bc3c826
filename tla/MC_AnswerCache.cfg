CONSTANTS
  Turns = {t1}
  Ingests = {m1}
  Deletes = {m2}
  MaxCorpus = 1
  MaxStamps = 3
  MaxRows = 1
SPECIFICATION FairSpec
INVARIANTS TypeOK TagIsSound
PROPERTIES MemoConverges HitsConverge
CHECK_DEADLOCK FALSE
