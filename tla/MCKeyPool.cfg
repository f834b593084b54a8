\* More handlers than keys, so that two of them queue, and more than one key,
\* so that one key can lie idle while another is used twice.
CONSTANTS
  Requests = {r1, r2, r3, r4}
  NumKeys = 2
  NoKey = NoKey

SPECIFICATION FairRotationSpec

INVARIANT PopNeverFails
INVARIANT KeysConserved
INVARIANT PermitsConserved
INVARIANT PoolInv
PROPERTY NoKeyOverused
PROPERTY EveryWaiterServed
PROPERTY ImplementsLease
