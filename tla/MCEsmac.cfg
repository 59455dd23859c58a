SPECIFICATION Spec
CONSTANTS
  Eelec = 20
  Eamp = 1
  Eidle = 16
  DataBits = 5
  ControlBits = 1
  Area = 20
  BaseStation <- MCBaseStation
  UintRange = 65536
  PT2 = 4
  DE2 = 36
  Protocol = "ESMAC"
  N = 3
  InitialEnergy = 9000
  MaxRounds = 20
  FramesPerRound = 2
  EpochLen = 3
  ThresholdEnergy = 180
  MinTE = 18
  MaxClusterSize = 2
  MaxRelayLoad = 1
  Placements <- Placements3
  EventSites <- EventsOne
INVARIANTS
  HeadsInv
  MembershipInv
PROPERTIES
  RowsFollow
  ClusteringSpec
  NetworkDies
