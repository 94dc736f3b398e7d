SPECIFICATION WorkloadSpec
CONSTANTS
  K = 3
  VCs = 3
  VcSize = 2
  NoFlit = NoFlit
  NoOffer = NoOffer
  Packets <- FivePackets
  Offers <- MeetingTraffic
  Workloads <- MeetingAndFollowing
INVARIANTS
  NoNullFront
  NoHeadForgotten
  ArrivesInOrder
PROPERTIES
  AssertMatchOutput
  NoLossInside
