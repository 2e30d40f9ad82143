SPECIFICATION Spec
CONSTANTS
    Calls = {t1}
    Inputs <- AllInputs
    Configured <- MCConfigured
    StderrMayFail = FALSE
    NoCall = NoCall
INVARIANTS
    CausesClassified
    AuditAgreesWithReply
    RepliesRedacted
    AuditNamesValidated
