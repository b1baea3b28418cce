CONSTANTS
  LockCrashLimit = 2
  LockClient = LockClient
  None = None
SPECIFICATION FairSpec
INVARIANTS
  StatusIsHonest
  UnlockedIsOpen
PROPERTIES
  AbandonedIsTakenOver
