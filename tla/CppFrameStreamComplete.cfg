\* What a late datagram of an older frame does to the frame in progress.
CONSTANTS
    Stream <- MCTwoFrames
    MaxPackets = 4

SPECIFICATION Spec

INVARIANT
    CompleteMeansAllPackets

\* The bound on the datagrams ends every behaviour; so does an exception.
CHECK_DEADLOCK FALSE
