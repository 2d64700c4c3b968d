CONSTANTS
    EventCap = 3
    ControlCap = 2
    MaxSeq = 9
SPECIFICATION Spec
INVARIANTS
    TypeOK
    NothingLostUncounted
PROPERTY
    ImplementsChannel
