SPECIFICATION Spec
CONSTANTS
    SourceSets <- MCSourceSets
    MaxTargets = 2
INVARIANTS
    DispatchMatchesCatalog
    NoSourceShadowed
