\* A session through a child.
CONSTANTS
    Sessions <- StackedSessions
    BufferSize = 1
    MaxReadAtATime = 2
    MaxBytes <- OneByte
    MaxRoom = 1
    Faults = {}
SPECIFICATION Spec
INVARIANTS NothingStuck SoftEndDelivers
CHECK_DEADLOCK FALSE
