SPECIFICATION Spec
CONSTANTS
    Calls = {t1, t2}
    Inputs <- OneInput
    Configured <- MCConfigured
    StderrMayFail = TRUE
    NoCall = NoCall
INVARIANTS
    EveryCallAudited
