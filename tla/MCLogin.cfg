CONSTANTS
  ada = ada
  bob = bob
  Greeter = Greeter
  None = None
  Users <- Both
  NoPassword <- Ada
  VTs = {10, 11}
  FailureLimit = 1
  MaxLate = 1
SPECIFICATION FairSpec
INVARIANTS
  GreeterIsInFront
  EachTheirOwnVT
PROPERTIES
  OnlyTheGoneAreDropped
  AskingEnds
  TheFrontGivesWay
