CONSTANTS
  N = 2
  Requires <- MCRequires
  MaxFailures = 1
  LockCrashLimit = 1
  HasLockScreen = FALSE
  HasFirstRun = TRUE
SPECIFICATION FairSpec
INVARIANTS
  NothingOutlivesTheSession
PROPERTIES
  LeavingIsNoFailure
  EveryExitIsAnswered
  StoppingEnds
