SPECIFICATION Spec
CONSTANTS
    Readers = {r1}
    MaxFileRecords = 2
    MaxWrites = 3
    MaxFaults = 2
INVARIANTS TypeOK UploadsAgree ReadersKeepTheirFiles
PROPERTIES NothingElseIsLost UploadsMissNothing
CHECK_DEADLOCK FALSE
