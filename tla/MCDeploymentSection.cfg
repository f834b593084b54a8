\* Is the log the one that the documented section names?
CONSTANTS
  Secrets = {"s1", "s2"}
  FirstFiles <- FileFiles
  MaxEdits = 0
  MaxStarts = 1
  U32 = 32
  LastDate = 40
  Periods <- SomePeriods
  Subjects <- SomeSubjects
  ForeignTokens <- NoTokens
  Claims <- SomeClaims
  LastDay = 0
  MaxTokens = 0

SPECIFICATION Spec
CHECK_DEADLOCK FALSE

PROPERTY DocumentedSectionNamesLog
