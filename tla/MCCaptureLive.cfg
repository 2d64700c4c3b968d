\* One finger; the capture opens again and the queue empties under fair threads.
SPECIFICATION LiveSpec
CONSTANTS
    Touches = {t1}
    Keys = {}
    EventCap = 1
    ControlCap = 1
    QueueCap = 1
    HeldCap = 2
    SlotCap = 1
    MaxPosts = 3
    MaxSwitches = 2
PROPERTIES CaptureReopens QueueDrains
