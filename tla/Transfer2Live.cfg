\* Two legs or one: silent or slow peers, a preamble, an inactivity timeout.
CONSTANTS
    StackModes = {TRUE, FALSE}
    CompleteCopy = TRUE
    Timers = {"timeout"}
    BufferSize = 2
    MaxReadAtATime = 2
    Preamble = 1
    MaxBytes = 2
    MaxRoom = 1
    Faults = {}
SPECIFICATION FairSpec
PROPERTIES ImplementsChannel NothingHeldBack TransferEnds
CHECK_DEADLOCK FALSE
