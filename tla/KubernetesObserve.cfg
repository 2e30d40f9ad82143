SPECIFICATION Spec
CONSTANTS
    Objects <- MCObjects
    ScopeOf <- MCScopeOf
    KindOf <- MCKindOf
    BadNames <- MCBadNames
    Items <- MCItems
    Nodes = {n1, n2}
    Scopes <- MCScopes
    Limits = {1, 2}
    ResourceListLimit = 1
    MaxChanges = 2
    Absent = Absent
SYMMETRY NodeSymmetry
INVARIANTS
    PersistentUnhealthyListed
    StatusIsTrue
PROPERTY
    ImplementsBoundedList
