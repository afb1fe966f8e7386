SPECIFICATION Spec
CONSTANTS
  LastSeqno = 3
  JumpCap = 3
  Quota = 4
  OtherSizes = {0, 2}
  RefreshEvery = 2
  NackBudget = 1
  NackRepeat = 1
  GiveUpTime = 1
  GiveUpBlocks = 1
  StartRepeat = 1
  Keepalive = 2
INVARIANTS TypeOK GapsTracked ExtentAgrees
PROPERTIES AcksHonest GapsEnd KeepsStarting
