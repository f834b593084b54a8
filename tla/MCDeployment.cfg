CONSTANTS
  Secrets = {"s1", "s2"}
  FirstFiles <- SomeFiles
  MaxEdits = 1
  MaxStarts = 2
  U32 = 32
  LastDate = 40
  Periods <- SomePeriods
  Subjects <- SomeSubjects
  ForeignTokens <- SomeTokens
  Claims <- SomeClaims
  LastDay = 3
  MaxTokens = 1

SPECIFICATION Spec
CHECK_DEADLOCK FALSE

INVARIANT TypeOK
PROPERTY LivesAsRequested
PROPERTY UserIsSubject
PROPERTY ServesAsConfigured
