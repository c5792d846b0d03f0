\* The conduit to a sonar that has two addresses, reached from two of the host's.
CONSTANTS
    Addresses = {a1, a2}
    NoAddress = NoAddress
    LocalAddresses = {h1, h2}
    Command <- MCCommand
    Settings <- MCSettings
    InitialSettings = "fast"
    Constrain <- MCConstrain
    MaxQueued = 1
    MaxBreaks = 1
    MaxRequests = 1
SPECIFICATION FairSpec
INVARIANTS
    NoBadTransition
    ConnectedSonarIsInitialized
    CookiesSound
    LastRequestWins
    ClientIsTold
PROPERTIES
    LostLinkNoticed
    DisposeReturns
