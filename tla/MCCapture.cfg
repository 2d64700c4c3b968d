\* One finger and one key; the queue, the held slots and both ingress rings reach their limits.
SPECIFICATION Spec
CONSTANTS
    Touches = {t1}
    Keys = {k1}
    EventCap = 1
    ControlCap = 1
    QueueCap = 2
    HeldCap = 2
    SlotCap = 1
    MaxPosts = 4
    MaxSwitches = 2
INVARIANTS TypeOK DrainedWhenClosed DisabledMeansDrained EdgesPair
