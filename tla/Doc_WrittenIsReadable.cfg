SPECIFICATION Spec
CONSTANTS
    Readers = {r1}
    MaxFileRecords = 2
    MaxWrites = 2
    MaxFaults = 1
INVARIANT WrittenIsReadable
CHECK_DEADLOCK FALSE
