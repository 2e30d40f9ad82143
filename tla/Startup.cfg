SPECIFICATION Spec
CONSTANTS
    Arguments <- MCArguments
    Files <- MCFiles
    ForeignAnswers <- MCForeignAnswers
    MaxTargets = 3
    DefaultRequestTimeout = 5
    MaxRequestTimeout = 30
    MaxStarts = 2
INVARIANTS
    ServesWhatIsConfigured
    RefusedOnlyForDuplicates
    ProbeTruthful
PROPERTIES
    SignalStops
    ProbeEnds
