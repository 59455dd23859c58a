SPECIFICATION Spec
CONSTANTS
  Eelec = 20
  Eamp = 1
  Eidle = 16
  DataBits = 5
  ControlBits = 1
  Area = 20
  BaseStation <- MCBaseStation
  UintRange = 65536
  PT2 = 4
  DE2 = 36
  Protocol = "LECMAC"
  N = 4
  InitialEnergy = 8000
  MaxRounds = 12
  FramesPerRound = 2
  EpochLen = 3
  ThresholdEnergy = 160
  MinTE = 18
  MaxClusterSize = 1
  MaxRelayLoad = 1
  Placements <- PlacementsCrowd
  EventSites <- EventsFarNear
INVARIANTS
  NoUnassigned
  NearestHead
  CapLastResort
  ProximityInv
