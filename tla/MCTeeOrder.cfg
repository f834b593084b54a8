\* The log of an unbroken response is compared with what was sent.
CONSTANT Chunks = 2

SPECIFICATION Spec
CHECK_DEADLOCK FALSE

INVARIANT LoggedAsSent
