\* Every configuration with every request, and every pattern with every text.
CONSTANTS
  Methods <- AllMethods
  SafeMethods <- SomeSafe
  Params <- SomeParams
  Beginnings <- SomeBeginnings
  Configs <- SomeConfigs
  Asks <- SomeAsks
  Letters = {"a"}
  MaxPattern = 4
  MaxText = 3

SPECIFICATION EitherSpec
CHECK_DEADLOCK FALSE

INVARIANT TypeOK
INVARIANT ListedOnly
INVARIANT RefusalsJustified
INVARIANT CheckedIsForwarded
INVARIANT CheckedIsRequested
INVARIANT PanicsWithoutModel
INVARIANT ListedMatches
INVARIANT SimplePatternsExact
