\* Two requests compete for one key, in every audit configuration in which the
\* tokens filter has its access filter.
CONSTANTS
  Requests = {r1, r2}
  NumKeys = 1
  NoKey = NoKey
  Filters <- SoundFilters

SPECIFICATION FairSpec
CHECK_DEADLOCK FALSE

INVARIANT TypeOK
INVARIANT KeyHeldWhileCalling
INVARIANT OneCallPerKey
INVARIANT GoneClientEndsCall
INVARIANT EntriesComplete
INVARIANT KeysInUseWhileWaiting
PROPERTY KeysComeBack
PROPERTY RequestsConcluded
PROPERTY AnsweredIsLogged
