\* Two explorers, a defender that is filtered out and a command module, two beacons,
\* one tick of the clock, a wait for an explorer, and Dispose.
CONSTANTS
    Listeners <- MCListeners
    Devices = {1, 2, 3, 4}
    Kind <- MCKind
    Included = {1, 2}
    Awaited = {2}
    Expiration = 0
    MaxTime = 1
    MaxBeacons = 2

SPECIFICATION FairSpec

INVARIANT ListsFollowBeacons

PROPERTIES
    SilentDevicesGo
    WaitReturns
    DisposeReturns

\* Disposed, with nothing left to run.
CHECK_DEADLOCK FALSE
