CONSTANTS
  c1 = c1
  c2 = c2
  o1 = o1
  o2 = o2
  None = None
  Main = o1
  Clients <- TwoClients
  Outputs <- TwoOutputs
SPECIFICATION FairDisplaysSpec
PROPERTIES
  OnceHiddenStaysHidden
  KeepsTheProtocol
  EveryLockIsAnswered
  LockHidesTheDesktop
