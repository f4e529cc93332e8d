\* No stacking: one leg, every fault, the tail is copied after a write error.
CONSTANTS
    StackModes = {FALSE}
    CompleteCopy = TRUE
    Timers = {"timeout", "progress"}
    BufferSize = 2
    MaxReadAtATime = 3
    Preamble = 0
    MaxBytes = 3
    MaxRoom = 2
    Faults = {"read_error", "write_error", "stop", "cancel", "suspend", "stack_fails", "setup_fails", "progress_fails"}
SPECIFICATION Spec
INVARIANTS TransferSound CleanShutdown FinishedMeansDelivered
PROPERTIES ImplementsChannel
CHECK_DEADLOCK FALSE
