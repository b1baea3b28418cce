CONSTANTS
  N = 1
  Requires <- MCOneRequires
  MaxFailures = 1
  LockCrashLimit = 1
  HasLockScreen = TRUE
  HasFirstRun = FALSE
SPECIFICATION FairSpec
PROPERTIES
  KeepsTheLock
  OnlyACrashIsRestarted
  LockExitIsHeard
