SPECIFICATION CallsSpec
CONSTANTS
    Calls = {c1, c2}
    Plans = {1, 3}
    Slots = 1
    RequestTimeout = 2
    WriteTimeout = 5
INVARIANTS
    ObservationBounded
    SuccessDelivered
PROPERTY
    CallEnds
