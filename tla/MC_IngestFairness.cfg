SPECIFICATION FairSpec
CONSTANTS
  n1 = n1
  n2 = n2
  mate = mate
  other = other
  s1 = s1
  s2 = s2
  noisy = noisy
  quiet = quiet
  botA = botA
  botB = botB
  botC = botC
  botD = botD
  Subjects = {s1, s2}
  Msgs = {n1, n2, mate, other}
  SubjectOf <- TwoSubjects
  WorkspaceOf <- MCWorkspaceOf
  BotOf <- MCBotOf
  Overflow = Overflow
  Hanging = {n1, n2}
  Concurrency = 2
  WorkspaceLimit = 1
  BotLimit = 1
  RegistryMax = 2
  ReadCount = 4
  MaxDeliveries = 1
INVARIANTS TypeOK CapsHold
PROPERTY QuietWorkspaceServed
CHECK_DEADLOCK FALSE
