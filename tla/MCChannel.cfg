SPECIFICATION Spec
CONSTANTS
  Flits = {f1, f2, f3}
  NoFlit = NoFlit
  Delay = 1
  Clocks <- MCClocks
INVARIANTS
  TypeOK
  NeverOverdue
PROPERTY
  IsALink
