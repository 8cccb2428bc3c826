SPECIFICATION FairSpec
CONSTANTS
  Calls = {c1, c2, s1, s2}
  Streams = {s1, s2}
  FailMax = 3
  CooldownBase = 1
  CooldownStep = 1
  CooldownMax = 3
  MaxCycles = 3
  MaxAttempts = 2
  ProviderSlots = 1
  MaxFaults = 2
INVARIANTS TypeOK FieldsAgree
PROPERTY RecoversWithProvider
