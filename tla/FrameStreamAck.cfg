\* The ack a lost first part brings about.
CONSTANTS
    Stream <- MCTwoFrames
    MaxPackets = 4
    MaxQueued = 1
    MaxDrains = 0
    MayDispose = FALSE
    UInt64Range = 16

SPECIFICATION StreamSpec

INVARIANT
    SteadyAcksClaimOnlyReceived

CHECK_DEADLOCK FALSE
