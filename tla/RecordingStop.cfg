\* What stopping a recording before its first frame comes to.
CONSTANTS
    Requests = {q1}
    NoRequest = NoRequest
    Sizes = {small}
    NoSize = NoSize
    MaxRecordRetries = 3
    MaxFrames = 2
    MaxQueued = 2
    MaxFailures = 0

SPECIFICATION Spec

INVARIANT
    StopsTheRecording

CHECK_DEADLOCK FALSE
