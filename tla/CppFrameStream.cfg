\* The C++ frame stream under losses, repeats, reordering and a restarted sonar.
CONSTANTS
    Stream <- MCStream
    MaxPackets = 9

SPECIFICATION Spec

INVARIANTS
    MetricsSound
    FinishedFramesSound
    NothingElseLost

\* The bound on the datagrams ends every behaviour; so does an exception.
CHECK_DEADLOCK FALSE
