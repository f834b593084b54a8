\* The tokens filter without the access filter.
CONSTANTS
  Requests = {r1, r2}
  NumKeys = 1
  NoKey = NoKey
  Filters <- TokensOnly

SPECIFICATION Spec
SYMMETRY RequestSymmetry
CHECK_DEADLOCK FALSE

INVARIANT NoPanic
