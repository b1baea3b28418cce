SPECIFICATION FairSpec
CONSTANTS
  Size = 16
  Dwords <- MCDwords
  SeqSpace = 4095
  Oobs = {"gpu", "stamp"}
  MaxBoots = 2
  MaxLate = 1
  MaxErrors = 1
  MaxCrashes = 1
INVARIANTS BootedInOrder AckedIsHeld
PROPERTIES OnlyItsOwnAnswerCounts CallsEnd
CHECK_DEADLOCK FALSE
