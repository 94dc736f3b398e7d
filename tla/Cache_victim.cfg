SPECIFICATION Spec
CONSTANTS
  WAYS = 3
  Tags = {0, 1, 2, 3, 4}
INVARIANT
  VictimExists
