CONSTANTS
  notes = notes
  photo = photo
  Files <- TwoFiles
  NameOf <- OwnNames
  MaxGrants = 2
  MaxMounted = 3
SPECIFICATION FairSpec
INVARIANTS
  RootsAreAccountedFor
  GrantsAreListed
PROPERTIES
  ALivingJailKeepsItsRoot
  GrantsLeaveFilesAlone
  RootsGoInTheEnd
