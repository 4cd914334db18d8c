SPECIFICATION Spec
CONSTANTS
    GUI_EVENT_QUEUE_SIZE = 4
    Buttons = {"LEFT", "RIGHT"}
    MaxPackets = 2
INVARIANT NoSelfDeadlock
