SPECIFICATION Spec
CONSTANTS
  Bits = 5
  StreamShift = 3
  RunShift = 1
  Modulus = 3
  Seeds <- MCSeeds
  AnimStreams <- MCAnimStreams
  DiagSeed = 1
  MaxRounds = 3
INVARIANTS
  SameDraws
  OwnStreams
CHECK_DEADLOCK FALSE
