\* Plain sessions with soft or hard shutdown, errors, timers and statistics.
CONSTANTS
    Sessions <- PlainSessions
    BufferSize = 1
    MaxReadAtATime = 2
    MaxBytes <- TwoBytesToServer
    MaxRoom = 1
    Faults = {"read_error", "write_error", "stats_rejects", "init_fails"}
SPECIFICATION FairSpec
INVARIANTS PlugSound SoftEndDelivers
PROPERTIES PlugImplementsChannel SessionSettles
CHECK_DEADLOCK FALSE
