SPECIFICATION Spec
CONSTANTS
    NULL = NULL
    Files <- MCAll
    BodyLimit = 1
    MaxFileSize = 2
    NameLimit = 2
    TTL = 1
    MaxTime = 2
    MaxUploads = 2
    MaxComments = 1
    MaxReads = 1
    MaxCleanups = 2
    MaxFaults = 1
CHECK_DEADLOCK FALSE
INVARIANTS
    TypeOK
    RowsHaveFiles
    NoLitter
    LinksAsMeant
    ServedAsUploaded
