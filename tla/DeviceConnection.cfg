\* A device with two endpoints, targets set while connections fail, and Dispose.
CONSTANTS
    Endpoints = {e1, e2}
    NoEndpoint = NoEndpoint
    MaxWork = 3
    MaxFailures = 3

SPECIFICATION FairSpec

INVARIANTS
    Connection

PROPERTIES
    TargetIsReached
    ReadingResumes
    DisposeReturns

\* The worker ends.
CHECK_DEADLOCK FALSE
