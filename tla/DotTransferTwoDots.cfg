\* Two dot lines in one buffer, whole writes.
CONSTANTS
    BufferSize = 8
    Lines <- ShortLines
    MaxLines = 3
    MaxChild = 0
    LongLine = {FALSE}
    MaxShort = 0
SPECIFICATION Spec
INVARIANTS DotStuffed
CHECK_DEADLOCK FALSE
