SPECIFICATION Spec
CONSTANT
    MaxWrites = 3
INVARIANT FailedWritesAreRemoved
CHECK_DEADLOCK FALSE
