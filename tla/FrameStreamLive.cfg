\* Draining, disposing, and that everything received is handled, with a short
\* stream.
CONSTANTS
    Stream <- MCShortStream
    MaxPackets = 3
    MaxQueued = 2
    MaxDrains = 1
    MayDispose = TRUE
    UInt64Range = 16

SPECIFICATION FairStreamSpec

INVARIANTS
    PublishedSound

PROPERTIES
    DrainMeansCounted
    SilentAfterDispose
    DisposeReturns
    EverythingHandled

\* The stream stops once it is disposed.
CHECK_DEADLOCK FALSE
