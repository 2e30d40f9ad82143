SPECIFICATION Spec
CONSTANTS
    Calls = {t1, t2, t3}
    Inputs <- LogInputs
    Configured <- MCConfigured
    StderrMayFail = TRUE
    NoCall = NoCall
INVARIANTS
    LogLinesWhole
PROPERTY
    CallReturns
