\* Two recordings over frames of two sizes, with storage that fails, and Dispose.
CONSTANTS
    Requests = {q1, q2}
    NoRequest = NoRequest
    Sizes = {small, large}
    NoSize = NoSize
    MaxRecordRetries = 2
    MaxFrames = 2
    MaxQueued = 1
    MaxFailures = 3

SPECIFICATION FairSpec

INVARIANTS
    FilesAndMappingAgree
    OpenFilesAreInUse
    NobodyIsForgotten

PROPERTIES
    QuitReturns

\* The bound on the frames ends every behaviour.
CHECK_DEADLOCK FALSE
