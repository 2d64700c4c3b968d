CONSTANTS
    Callers = {c1, c2, c3}
    Worker = worker
    EventCap = 2
    ControlCap = 1
    MaxSeq = 4
SYMMETRY CallerSymmetry
SPECIFICATION Spec
INVARIANTS
    TypeOK
    NoLostWakeup
    SleepersAreUnanswered
    AckMeansApplied
    OneCreator
PROPERTIES
    PopsInSeqOrder
    OnlyOldestEventLost
    ImplementsChannel
