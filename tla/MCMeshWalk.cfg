SPECIFICATION Spec
CONSTANTS
  K = 8
  Dests <- MCDests
INVARIANTS
  InPortMatchesWiring
  NoTurnBackToX
  EjectsAtDestination
PROPERTIES
  HopsAreMinimal
  Arrives
