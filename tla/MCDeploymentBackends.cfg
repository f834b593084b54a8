\* Can the server be started with every backend?
CONSTANTS
  Secrets = {"s1", "s2"}
  FirstFiles <- OfferedFiles
  MaxEdits = 0
  MaxStarts = 1
  U32 = 32
  LastDate = 40
  Periods <- SomePeriods
  Subjects <- SomeSubjects
  ForeignTokens <- NoTokens
  Claims <- SomeClaims
  LastDay = 0
  MaxTokens = 0

SPECIFICATION Spec
CHECK_DEADLOCK FALSE

INVARIANT OfferedBackendsOpen
