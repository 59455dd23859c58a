SPECIFICATION Spec
CONSTANTS
  Eelec = 20
  Eamp = 1
  Eidle = 16
  DataBits = 5
  ControlBits = 1
  Area = 20
  BaseStation <- MCBaseStation
  UintRange = 65536
  PT2 = 4
  DE2 = 36
  Protocol = "LECMAC_PLUS"
  N = 4
  InitialEnergy = 5500
  MaxRounds = 12
  FramesPerRound = 2
  EpochLen = 3
  ThresholdEnergy = 110
  MinTE = 11
  MaxClusterSize = 2
  MaxRelayLoad = 1
  Placements <- PlacementsRelay
  EventSites <- EventsFarNear
INVARIANTS
  TypeOK
  WeakHeadInv
  RelayLoad
  RelayPaths
  RelayPriority
PROPERTIES
  DataReachesBase
  LifetimeSpec
