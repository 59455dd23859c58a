SPECIFICATION Spec
CONSTANTS
  LastLayout = 1
  LastSeed = 2
  Rounds = 1
  ConsoleRounds = {}
  OldFiles <- MCOldFiles
INVARIANTS
  AnnouncedIsGood
CHECK_DEADLOCK FALSE
