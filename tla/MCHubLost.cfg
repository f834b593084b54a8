\* A client leaves before the answer.
CONSTANTS
  Requests = {r1, r2}
  NumKeys = 1
  NoKey = NoKey
  Filters <- FullAudit

SPECIFICATION Spec
SYMMETRY RequestSymmetry
CHECK_DEADLOCK FALSE

INVARIANT EveryCallLogged
