\* Expected to be violated: flit.h:20.
SPECIFICATION WorkloadSpec
CONSTANTS
  K = 2
  VCs = 3
  VcSize = 2
  NoFlit = NoFlit
  NoOffer = NoOffer
  Packets <- ThreePackets
  Offers <- MixedTraffic
  Workloads <- OnlyPair
INVARIANTS
  SequenceNumber
