\* Three chunks, so that chunks overtake each other in the senders, in the
\* queue and in front of an error.
CONSTANT Chunks = 3

SPECIFICATION RuntimeSpec
CHECK_DEADLOCK FALSE

INVARIANT TypeOK
INVARIANT NothingLost
INVARIANT CleanEndIsWhole
PROPERTY ImplementsRelay
PROPERTY RecordCompleted
PROPERTY ErrorEndsTask
