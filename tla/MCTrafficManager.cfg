SPECIFICATION FairWorkloadSpec
CONSTANTS
  K = 2
  VCs = 3
  VcSize = 2
  NoFlit = NoFlit
  NoOffer = NoOffer
  Packets <- ThreePackets
  Offers <- SmallTraffic
  Workloads <- MixedAndContended
INVARIANTS
  TypeOK
  NoNullFront
  NoHeadForgotten
  NoDuplicates
  ArrivesInOrder
PROPERTIES
  AssertMatchOutput
  NoLossInside
  SmoothTrafficIsDelivered
