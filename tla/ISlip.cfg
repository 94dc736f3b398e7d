CONSTANTS
  NumInputs = 3
  NumOutputs = 2
  ISlipIter = 2
SPECIFICATION FairSpec
INVARIANTS
  TypeOK
  RequestViewsAgree
  MatchesAreRequested
  MatchingIsOneToOne
  NoStaleMatch
  RequestedOutputsAreServed
PROPERTY NoStarvation
