\* The lite assembler under losses, repeats and reordering.
CONSTANTS
    Stream <- MCStream
    SamplesTo <- MCSamplesTo
    MaxAllocations = 4

SPECIFICATION Spec

INVARIANTS
    AllocationsSound
    CompletedFramesSound
    NothingElseLost

\* The assembler stops once it is freed.
CHECK_DEADLOCK FALSE
