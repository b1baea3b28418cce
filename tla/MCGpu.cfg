SPECIFICATION FairSpec
CONSTANTS
  MaxJobs = 2
  MaxHangs = 1
  MaxFaults = 1
  MaxHolds = 1
  Retries = 1
  LosesIrqs = TRUE
  ResumeMayFail = TRUE
INVARIANTS CountsAgree RetiredIsSignalled
PROPERTIES SuspendsOnlyIdle EveryJobIsSignalled
\* Every job done, the GPU rests.
CHECK_DEADLOCK FALSE
