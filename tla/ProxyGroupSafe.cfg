\* Three sessions and every fault.
CONSTANTS
    Proxies = {p1, p2, p3}
    MaxGroups = 3
    Services <- SafeServices
SPECIFICATION Spec
INVARIANTS GroupSound NothingStranded
CHECK_DEADLOCK FALSE
