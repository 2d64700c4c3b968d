\* A soft resume that reaches the worker after the capture was opened again.
SPECIFICATION Spec
CONSTANTS
    Touches = {t1}
    Keys = {}
    EventCap = 1
    ControlCap = 1
    QueueCap = 2
    HeldCap = 2
    SlotCap = 1
    MaxPosts = 3
    MaxSwitches = 1
PROPERTIES ForcedMoveFindsQueueDrained
