SPECIFICATION Spec
CONSTANTS
    Conns = {k1, k2}
    MaxMCPRequestBytes = 1
    MaxConnections = 2
INVARIANTS
    ExitZeroIsGraceful
    SDKBodyWhole
    ForeignRefusedUnread
PROPERTIES
    AcceptErrorNotLost
    SignalEndsProcess
    ProbesAnswered
