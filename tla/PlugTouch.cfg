\* Packet statistics that reject a session.
CONSTANTS
    Sessions <- RejectedSessions
    BufferSize = 1
    MaxReadAtATime = 2
    MaxBytes <- TwoBytesToServer
    MaxRoom = 1
    Faults = {"stats_rejects"}
SPECIFICATION Spec
INVARIANTS NoTouchAfterFinish
CHECK_DEADLOCK FALSE
