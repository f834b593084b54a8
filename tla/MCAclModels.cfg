\* Are model lists applied to what is forwarded?
CONSTANTS
  Methods <- AllMethods
  SafeMethods <- SomeSafe
  Params <- SomeParams
  Beginnings <- SomeBeginnings
  Configs <- TranscriptionConfigs
  Asks <- TranscriptionAsks
  Letters = {"a"}
  MaxPattern = 0
  MaxText = 0

SPECIFICATION EitherSpec
CHECK_DEADLOCK FALSE

INVARIANT ModelListsApply
