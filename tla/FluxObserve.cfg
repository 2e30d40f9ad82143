SPECIFICATION Spec
CONSTANTS
    Objects <- MCObjects
    ScopeOf <- MCScopeOf
    KindOf <- MCKindOf
    BadNames <- MCBadNames
    Items <- MCItems
    Scopes <- MCScopes
    Target = "t"
    Inputs <- MCInputs
    DefaultListLimit = 2
    MaxListLimit = 3
    ResourceListLimit = 1
    MaxChanges = 1
    Absent = Absent
INVARIANTS
    EntriesWereTrue
    KeptAreFirst
PROPERTY
    ImplementsBoundedList
