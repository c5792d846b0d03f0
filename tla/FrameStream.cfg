\* What comes out of the stream, whatever the link does to the datagrams and
\* whenever the conduit flushes.
CONSTANTS
    Stream <- MCStream
    MaxPackets = 6
    MaxQueued = 1
    MaxDrains = 0
    MayDispose = FALSE
    UInt64Range = 16

SPECIFICATION StreamSpec

INVARIANTS
    AssemblerSound
    AcceptedBytesAccounted
    AckAsksForNextPart
    PublishedSound
    NothingElseLost

PROPERTIES
    FirstPartResyncs
    DeliversWholeFrames

\* The bound on the datagrams ends every behaviour.
CHECK_DEADLOCK FALSE
