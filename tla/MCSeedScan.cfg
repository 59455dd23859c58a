SPECIFICATION Spec
CONSTANTS
  LastLayout = 1
  LastSeed = 2
  Rounds = 1
  ConsoleRounds = {}
  OldFiles <- MCOldFiles
INVARIANTS
  FileIsOwn
  GoodSeedIsGood
  NoGoodSeedMissed
PROPERTIES
  ScanTerminates
CHECK_DEADLOCK FALSE
