CONSTANTS
  Entries = {"a1", "a2", "t1"}
  TokenEntries = {"t1"}
  Pieces <- SomePieces
  MaxFaults = 2
  MaxCrashes = 1
  Asks <- SomeAsks
  RecordsOf <- SomeRecords

SPECIFICATION FairSpec
CHECK_DEADLOCK FALSE

INVARIANT TypeOK
INVARIANT DamageIsBounded
INVARIANT PanicsOnOddModel
PROPERTY ImplementsJournal
PROPERTY CountIsExact
PROPERTY EntriesConcluded
