SPECIFICATION Spec
CONSTANTS
    Callers = {c1, c2, c3}
    MaxConcurrentRequests = 1
    MaxSourceResponseBytes = 1
    MaxRotations = 2
    Clients <- MCClients
INVARIANTS
    TypeOK
    SlotsMatchHolders
    TokenFresh
    BodyComplete
    OutcomeMatchesContext
PROPERTIES
    GetReturns
    ImplementsBoundedGet
