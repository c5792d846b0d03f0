\* The accumulator of the simplified protocol under losses, repeats, reordering,
\* unreadable datagrams and a restarted sonar.
CONSTANTS
    Stream <- MCStream
    MaxFrames = 3

SPECIFICATION Spec

INVARIANTS
    FrameStateSound
    NothingElseLost

PROPERTY
    DeliversWholeFrames

\* The bound on the frames ends every behaviour.
CHECK_DEADLOCK FALSE
