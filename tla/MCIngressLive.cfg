CONSTANTS
    Callers = {c1, c2}
    Worker = worker
    EventCap = 1
    ControlCap = 1
    MaxSeq = 3
SPECIFICATION LiveSpec
PROPERTIES
    EverySeqIsPassed
    CallsReturn
